---- MODULE Spec2Model ----
(***************************************************************************)
(* Security core of the trading bot (utils/security.py): RateLimiter,      *)
(* CaptchaGenerator, CryptoUtils and SessionManager, as state machines.    *)
(*                                                                         *)
(* Time.  The code reads the wall clock (time.time(), datetime.utcnow()).  *)
(* The model's clock `now` counts ticks, TicksPerSecond of them to one     *)
(* second.  A handler that reads the clock several times sees `now` on     *)
(* its first read; the clock may cross one tick boundary while the         *)
(* handler runs, so every later read sees the same value or one tick       *)
(* more, monotonically.  Two handlers may run within the same tick.        *)
(***************************************************************************)
EXTENDS Integers, Sequences, FiniteSets, TLC

\* ------------------------------------------------------------ bounds
TicksPerSecond == 2
MaxTicks == 2
MaxCalls == 2
MaxPercentLen == 5

\* ------------------------------------------- SecurityConfig and literals
MAX_REQUESTS_PER_MINUTE == 30
MAX_REQUESTS_PER_HOUR == 200
MAX_LOGIN_ATTEMPTS == 5
LOGIN_LOCKOUT_DURATION == 300
CAPTCHA_EXPIRY_SECONDS == 300
MAX_CAPTCHA_ATTEMPTS == 3
SESSION_TIMEOUT_SECONDS == 3600
MAX_CONCURRENT_SESSIONS == 3
SALT_LENGTH == 32
MinuteWindowSeconds == 60
HourWindowSeconds == 3600
FailureHorizonSeconds == 300
DocumentLifetimeSeconds == 300

Secs(n) == n * TicksPerSecond

Users == {1, 2}
Endpoints == {"default", "trade"}
None == "None"

\* ------------------------------------------------- Python dict helpers
Has(d, k) == k \in DOMAIN d
Put(d, k, v) == [x \in (DOMAIN d) \cup {k} |-> IF x = k THEN v ELSE d[x]]
Del(d, k) == [x \in (DOMAIN d) \ {k} |-> d[x]]
EmptyDict == [x \in {} |-> 0]

VARIABLES
  now,              \* the wall clock, in ticks
  calls,            \* handler invocations so far (bounded by MaxCalls)
  ticks,            \* clock advances so far (bounded by MaxTicks)
  plan,             \* the opening traffic still to come
  requests,         \* RateLimiter.requests: user -> endpoint -> windows
  failed_attempts,  \* RateLimiter.failed_attempts: user -> timestamps
  locked_users,     \* RateLimiter.locked_users: user -> unlock time
  allowed,          \* history: times of the allowed requests per (user, endpoint)
  denied,           \* history: times of the window-limit denials per user
  prevCall,         \* history: each user's latest allow_request call
  captcha_storage,  \* CaptchaGenerator.captcha_storage: user -> challenge
  stored,           \* history: what store_captcha was last given, per user
  captcha_sessions, \* Database.db.captcha_sessions: user -> document
  inflight,         \* store_captcha calls waiting at `await db_instance.store_captcha`
  user_states,      \* CommandHandlers.user_states: user -> interaction state
  sessions,         \* SessionManager.sessions: token -> session data
  user_sessions,    \* SessionManager.user_sessions: user -> tokens
  issued,           \* history: every token create_session has returned
  pending,          \* SessionManager coroutines begun or scheduled, not yet finished
  master_key,       \* CryptoUtils.master_key
  vault,            \* history: the EncryptedSecrets produced so far
  last              \* the latest handler invocation and what it returned

clockVars == <<now, calls, ticks, plan>>
rateVars == <<requests, failed_attempts, locked_users, allowed, denied, prevCall>>
captchaVars == <<captcha_storage, stored, captcha_sessions, inflight, user_states>>
sessionVars == <<sessions, user_sessions, issued, pending>>
cryptoVars == <<master_key, vault>>
vars == <<clockVars, rateVars, captchaVars, sessionVars, cryptoVars, last>>

NoCall == [op |-> "none"]

\* The clock advances by d ticks.
Tick(deltas) ==
  /\ plan = <<>>
  /\ ticks < MaxTicks
  /\ \E d \in deltas : now' = now + d
  /\ ticks' = ticks + 1
  /\ UNCHANGED <<calls, plan, rateVars, captchaVars, sessionVars, cryptoVars, last>>

\* A second clock read within one handler: the same tick or the next one.
LaterReads(t) == {t, t + 1}

\* =========================================================== RateLimiter

\* security.py:80-81  [t for t in window if current_time - t < duration]
PruneWindowNoBoundary(window, current_time, seconds) ==
  LET Keep(t) == current_time - t <= Secs(seconds) IN SelectSeq(window, Keep)

PruneWindow(window, current_time, seconds) ==
  LET Keep(t) == current_time - t < Secs(seconds) IN SelectSeq(window, Keep)

\* security.py:84  len(user_requests['minute']) >= MAX_REQUESTS_PER_MINUTE
MinuteLimitReachedOffByOne(minute) == Len(minute) > MAX_REQUESTS_PER_MINUTE

MinuteLimitReached(minute) == Len(minute) >= MAX_REQUESTS_PER_MINUTE

\* security.py:89  len(user_requests['hour']) >= MAX_REQUESTS_PER_HOUR
HourLimitReachedOffByOne(hour) == Len(hour) > MAX_REQUESTS_PER_HOUR

HourLimitReached(hour) == Len(hour) >= MAX_REQUESTS_PER_HOUR

\* security.py:104  current_time < unlock_time
StillLockedExclusive(current_time, unlock_time) == current_time <= unlock_time

StillLocked(current_time, unlock_time) == current_time < unlock_time

\* security.py:100-109  _is_locked_out: the answer and locked_users afterwards
IsLockedOutPermanent(locked, user_id, current_time) ==
  [locked_out |-> Has(locked, user_id), locked_users |-> locked]

IsLockedOutExtends(locked, user_id, current_time) ==
  IF Has(locked, user_id)
  THEN IF StillLocked(current_time, locked[user_id])
       THEN [locked_out |-> TRUE,
             locked_users |->
               Put(locked, user_id, current_time + Secs(LOGIN_LOCKOUT_DURATION))]
       ELSE [locked_out |-> FALSE, locked_users |-> Del(locked, user_id)]
  ELSE [locked_out |-> FALSE, locked_users |-> locked]

IsLockedOut(locked, user_id, current_time) ==
  IF Has(locked, user_id)
  THEN IF StillLocked(current_time, locked[user_id])
       THEN [locked_out |-> TRUE, locked_users |-> locked]
       ELSE [locked_out |-> FALSE, locked_users |-> Del(locked, user_id)]
  ELSE [locked_out |-> FALSE, locked_users |-> locked]

\* security.py:128  len(self.failed_attempts[user_id]) >= MAX_LOGIN_ATTEMPTS
LockThresholdReachedLate(attempts) == Len(attempts) > MAX_LOGIN_ATTEMPTS

LockThresholdReached(attempts) == Len(attempts) >= MAX_LOGIN_ATTEMPTS

\* security.py:111-130  _record_failed_attempt, with its own clock read
RecordFailedAttemptUnpruned(failed, locked, user_id, current_time) ==
  LET old == IF Has(failed, user_id) THEN failed[user_id] ELSE <<>>
      attempts == Append(old, current_time)
  IN [failed_attempts |-> Put(failed, user_id, attempts),
      locked_users |->
        IF Len(attempts) >= MAX_LOGIN_ATTEMPTS
        THEN Put(locked, user_id, current_time + Secs(LOGIN_LOCKOUT_DURATION))
        ELSE locked]

RecordFailedAttempt(failed, locked, user_id, current_time) ==
  LET old == IF Has(failed, user_id) THEN failed[user_id] ELSE <<>>
      kept == PruneWindow(old, current_time, FailureHorizonSeconds)
      attempts == Append(kept, current_time)
  IN [failed_attempts |-> Put(failed, user_id, attempts),
      locked_users |->
        IF LockThresholdReached(attempts)
        THEN Put(locked, user_id, current_time + Secs(LOGIN_LOCKOUT_DURATION))
        ELSE locked]

NewWindows == [minute |-> <<>>, hour |-> <<>>]

\* security.py:59-98  allow_request.  S holds the three dictionaries, t1 is
\* the clock read of line 61 and t2 the one of _record_failed_attempt.
AllowRequestOneWindow(S, user_id, endpoint, t1, t2) ==
  LET lock == IsLockedOut(S.locked_users, user_id, t1) IN
  IF lock.locked_out
  THEN [requests |-> S.requests, failed_attempts |-> S.failed_attempts,
        locked_users |-> lock.locked_users, result |-> FALSE, cause |-> "lockout"]
  ELSE
    LET byUser == IF Has(S.requests, user_id) THEN S.requests[user_id] ELSE EmptyDict
        old == IF Has(byUser, "default") THEN byUser["default"] ELSE NewWindows
        minute == PruneWindow(old.minute, t1, MinuteWindowSeconds)
        hour == PruneWindow(old.hour, t1, HourWindowSeconds)
        pruned == Put(S.requests, user_id,
                      Put(byUser, "default", [minute |-> minute, hour |-> hour]))
        fail == RecordFailedAttempt(S.failed_attempts, lock.locked_users, user_id, t2)
    IN IF MinuteLimitReached(minute)
       THEN [requests |-> pruned, failed_attempts |-> fail.failed_attempts,
             locked_users |-> fail.locked_users, result |-> FALSE, cause |-> "minute"]
       ELSE IF HourLimitReached(hour)
       THEN [requests |-> pruned, failed_attempts |-> fail.failed_attempts,
             locked_users |-> fail.locked_users, result |-> FALSE, cause |-> "hour"]
       ELSE [requests |-> Put(S.requests, user_id,
                              Put(byUser, "default",
                                  [minute |-> Append(minute, t1),
                                   hour |-> Append(hour, t1)])),
             failed_attempts |-> S.failed_attempts,
             locked_users |-> lock.locked_users, result |-> TRUE, cause |-> "ok"]

AllowRequestCountsDenied(S, user_id, endpoint, t1, t2) ==
  LET lock == IsLockedOut(S.locked_users, user_id, t1) IN
  IF lock.locked_out
  THEN [requests |-> S.requests, failed_attempts |-> S.failed_attempts,
        locked_users |-> lock.locked_users, result |-> FALSE, cause |-> "lockout"]
  ELSE
    LET byUser == IF Has(S.requests, user_id) THEN S.requests[user_id] ELSE EmptyDict
        old == IF Has(byUser, endpoint) THEN byUser[endpoint] ELSE NewWindows
        minute == PruneWindow(old.minute, t1, MinuteWindowSeconds)
        hour == PruneWindow(old.hour, t1, HourWindowSeconds)
        counted == Put(S.requests, user_id,
                       Put(byUser, endpoint,
                           [minute |-> Append(minute, t1), hour |-> Append(hour, t1)]))
        fail == RecordFailedAttempt(S.failed_attempts, lock.locked_users, user_id, t2)
    IN IF MinuteLimitReached(minute)
       THEN [requests |-> counted, failed_attempts |-> fail.failed_attempts,
             locked_users |-> fail.locked_users, result |-> FALSE, cause |-> "minute"]
       ELSE IF HourLimitReached(hour)
       THEN [requests |-> counted, failed_attempts |-> fail.failed_attempts,
             locked_users |-> fail.locked_users, result |-> FALSE, cause |-> "hour"]
       ELSE [requests |-> counted,
             failed_attempts |-> S.failed_attempts,
             locked_users |-> lock.locked_users, result |-> TRUE, cause |-> "ok"]

AllowRequest(S, user_id, endpoint, t1, t2) ==
  LET lock == IsLockedOut(S.locked_users, user_id, t1) IN
  IF lock.locked_out
  THEN [requests |-> S.requests, failed_attempts |-> S.failed_attempts,
        locked_users |-> lock.locked_users, result |-> FALSE, cause |-> "lockout"]
  ELSE
    LET byUser == IF Has(S.requests, user_id) THEN S.requests[user_id] ELSE EmptyDict
        old == IF Has(byUser, endpoint) THEN byUser[endpoint] ELSE NewWindows
        minute == PruneWindow(old.minute, t1, MinuteWindowSeconds)
        hour == PruneWindow(old.hour, t1, HourWindowSeconds)
        pruned == Put(S.requests, user_id,
                      Put(byUser, endpoint, [minute |-> minute, hour |-> hour]))
        fail == RecordFailedAttempt(S.failed_attempts, lock.locked_users, user_id, t2)
    IN IF MinuteLimitReached(minute)
       THEN [requests |-> pruned, failed_attempts |-> fail.failed_attempts,
             locked_users |-> fail.locked_users, result |-> FALSE, cause |-> "minute"]
       ELSE IF HourLimitReached(hour)
       THEN [requests |-> pruned, failed_attempts |-> fail.failed_attempts,
             locked_users |-> fail.locked_users, result |-> FALSE, cause |-> "hour"]
       ELSE [requests |-> Put(S.requests, user_id,
                              Put(byUser, endpoint,
                                  [minute |-> Append(minute, t1),
                                   hour |-> Append(hour, t1)])),
             failed_attempts |-> S.failed_attempts,
             locked_users |-> lock.locked_users, result |-> TRUE, cause |-> "ok"]

\* security.py:132-139  reset_user_limits
ResetUserLimitsKeepsLockout(S, user_id) ==
  [requests |-> IF Has(S.requests, user_id) THEN Del(S.requests, user_id) ELSE S.requests,
   failed_attempts |-> IF Has(S.failed_attempts, user_id)
                       THEN Del(S.failed_attempts, user_id) ELSE S.failed_attempts,
   locked_users |-> S.locked_users]

ResetUserLimitsOfAll(S, user_id) ==
  [requests |-> EmptyDict, failed_attempts |-> EmptyDict, locked_users |-> EmptyDict]

ResetUserLimits(S, user_id) ==
  [requests |-> IF Has(S.requests, user_id) THEN Del(S.requests, user_id) ELSE S.requests,
   failed_attempts |-> IF Has(S.failed_attempts, user_id)
                       THEN Del(S.failed_attempts, user_id) ELSE S.failed_attempts,
   locked_users |-> IF Has(S.locked_users, user_id)
                    THEN Del(S.locked_users, user_id) ELSE S.locked_users]

\* ------------------------------------------------- the limiter as a whole
\* Entries of `log` that lie within the `seconds` preceding time t.
CountWithin(log, t, seconds) ==
  Cardinality({i \in 1..Len(log) : t - log[i] < Secs(seconds)})

PairLogs == [p \in Users \X Endpoints |-> <<>>]

\* One allow_request(user_id, endpoint) on limiter state R, whose second
\* clock read (if it comes to one) is t2; the histories are kept alongside.
CallAllow(R, user_id, endpoint, t2) ==
  LET r == AllowRequest(R, user_id, endpoint, R.now, t2)
      byWindow == r.cause \in {"minute", "hour"}
      log == R.allowed[<<user_id, endpoint>>]
      call == [op |-> "allow_request", user |-> user_id, endpoint |-> endpoint,
               t |-> R.now, result |-> r.result, cause |-> r.cause,
               minuteCount |-> CountWithin(log, R.now, MinuteWindowSeconds),
               hourCount |-> CountWithin(log, R.now, HourWindowSeconds),
               lockedUntil |-> IF Has(R.locked_users, user_id)
                               THEN R.locked_users[user_id] ELSE -1,
               lockedAfter |-> Has(r.locked_users, user_id),
               denials |-> R.denied[user_id]]
  IN [now |-> IF byWindow THEN t2 ELSE R.now,
      requests |-> r.requests,
      failed_attempts |-> r.failed_attempts,
      locked_users |-> r.locked_users,
      allowed |-> IF r.result
                  THEN [R.allowed EXCEPT ![<<user_id, endpoint>>] = Append(@, R.now)]
                  ELSE R.allowed,
      denied |-> IF byWindow
                 THEN [R.denied EXCEPT ![user_id] = Append(@, t2)]
                 ELSE R.denied,
      prevCall |-> [R.prevCall EXCEPT ![user_id] = call],
      last |-> [call EXCEPT !.op = "allow_request"] @@ [prev |-> R.prevCall[user_id]]]

B(user_id, endpoint, gap, n) ==
  [user |-> user_id, endpoint |-> endpoint, gap |-> gap, n |-> n]

\* Bursts of one short of the minute limit, a minute apart, until the hour
\* window is full; the last request of the last burst meets the hour limit.
RECURSIVE SteadyBursts(_, _, _)
SteadyBursts(user_id, endpoint, left) ==
  IF left <= 0 THEN <<>>
  ELSE LET n == IF left < MAX_REQUESTS_PER_MINUTE - 1
                THEN left ELSE MAX_REQUESTS_PER_MINUTE - 1
       IN <<B(user_id, endpoint, Secs(MinuteWindowSeconds), n)>>
            \o SteadyBursts(user_id, endpoint, left - n)

HourFull == SteadyBursts(1, "default", MAX_REQUESTS_PER_HOUR + 1)

\* The time from the last burst of HourFull to the moment its first burst
\* is an hour old.
HourFullAges ==
  Secs(HourWindowSeconds)
    - (Len(HourFull) - 1) * Secs(MinuteWindowSeconds)

\* Traffic the limiter sees first, as bursts of n requests that start `gap`
\* ticks after the previous one: none, a window one short of the minute
\* limit, a full window with four denials, one with five (a lockout),
\* four denials with the window full again just inside and just outside
\* the failure horizon, a full hour window, a full hour window with a
\* request one tick before and one at the moment its first burst leaves
\* it, and four denials on one endpoint with a full window on the other.
RateHistories ==
  { <<>>,
    HourFull,
    HourFull \o << B(1, "default", HourFullAges - 1, 1), B(1, "default", 1, 1) >>,
    << B(1, "default", 0, MAX_REQUESTS_PER_MINUTE - 1) >>,
    << B(1, "default", 0, MAX_REQUESTS_PER_MINUTE + MAX_LOGIN_ATTEMPTS - 1) >>,
    << B(1, "default", 0, MAX_REQUESTS_PER_MINUTE + MAX_LOGIN_ATTEMPTS) >>,
    << B(1, "default", 0, MAX_REQUESTS_PER_MINUTE + MAX_LOGIN_ATTEMPTS - 1),
       B(1, "default", Secs(FailureHorizonSeconds) - 1, MAX_REQUESTS_PER_MINUTE) >>,
    << B(1, "default", 0, MAX_REQUESTS_PER_MINUTE + MAX_LOGIN_ATTEMPTS - 1),
       B(1, "default", Secs(FailureHorizonSeconds), MAX_REQUESTS_PER_MINUTE) >>,
    << B(1, "default", 0, MAX_REQUESTS_PER_MINUTE + MAX_LOGIN_ATTEMPTS - 1),
       B(1, "trade", 0, MAX_REQUESTS_PER_MINUTE) >> }

\* Clock advances: one tick, one tick short of the minute window and of the
\* lockout, so that two advances land exactly on either boundary, and the
\* hour window.
RateDeltas ==
  { 1, Secs(MinuteWindowSeconds) - 1, Secs(LOGIN_LOCKOUT_DURATION) - 1,
    Secs(HourWindowSeconds) }

NoChallenge == [set |-> FALSE]

IdleDatabase == captcha_sessions = EmptyDict /\ inflight = {}

IdleHandlers == user_states = EmptyDict

IdleCaptcha ==
  /\ captcha_storage = EmptyDict
  /\ stored = [u \in Users |-> NoChallenge]
  /\ IdleDatabase
  /\ IdleHandlers
IdleSessions ==
  /\ sessions = EmptyDict
  /\ user_sessions = EmptyDict
  /\ issued = {}
  /\ pending = [sweep |-> NoCall, call |-> NoCall]
IdleCrypto == master_key = <<"m">> /\ vault = {}

InitRate ==
  /\ plan \in RateHistories
  /\ now = 0
  /\ requests = EmptyDict
  /\ failed_attempts = EmptyDict
  /\ locked_users = EmptyDict
  /\ allowed = PairLogs
  /\ denied = [u \in Users |-> <<>>]
  /\ prevCall = [u \in Users |-> NoCall]
  /\ last = NoCall
  /\ calls = 0
  /\ ticks = 0
  /\ IdleCaptcha
  /\ IdleSessions
  /\ IdleCrypto

Limiter ==
  [now |-> now, requests |-> requests, failed_attempts |-> failed_attempts,
   locked_users |-> locked_users, allowed |-> allowed, denied |-> denied,
   prevCall |-> prevCall, last |-> last]

\* The limiter's state after R, a record of the same shape.
LimiterBecomes(R) ==
  /\ now' = R.now
  /\ requests' = R.requests
  /\ failed_attempts' = R.failed_attempts
  /\ locked_users' = R.locked_users
  /\ allowed' = R.allowed
  /\ denied' = R.denied
  /\ prevCall' = R.prevCall
  /\ last' = R.last

\* The next request of the opening traffic.
RateReplay ==
  /\ plan # <<>>
  /\ "n" \in DOMAIN Head(plan)
  /\ LET b == Head(plan)
         at == [Limiter EXCEPT !.now = @ + b.gap]
     IN /\ LimiterBecomes(CallAllow(at, b.user, b.endpoint, at.now))
        /\ plan' = IF b.n = 1 THEN Tail(plan)
                   ELSE <<[b EXCEPT !.gap = 0, !.n = @ - 1]>> \o Tail(plan)
  /\ UNCHANGED <<calls, ticks, captchaVars, sessionVars, cryptoVars>>

RateRequest ==
  /\ plan = <<>>
  /\ calls < MaxCalls
  /\ \E u \in Users, e \in Endpoints, t2 \in LaterReads(now) :
       LimiterBecomes(CallAllow(Limiter, u, e, t2))
  /\ calls' = calls + 1
  /\ UNCHANGED <<plan, ticks, captchaVars, sessionVars, cryptoVars>>

RateReset ==
  /\ plan = <<>>
  /\ calls < MaxCalls
  /\ \E u \in Users :
       LET S == ResetUserLimits(Limiter, u) IN
         /\ requests' = S.requests
         /\ failed_attempts' = S.failed_attempts
         /\ locked_users' = S.locked_users
         /\ allowed' = [p \in Users \X Endpoints |->
                          IF p[1] = u THEN <<>> ELSE allowed[p]]
         /\ denied' = [denied EXCEPT ![u] = <<>>]
         /\ last' = [op |-> "reset_user_limits", user |-> u, t |-> now,
                     before |-> [requests |-> requests,
                                 failed_attempts |-> failed_attempts,
                                 locked_users |-> locked_users]]
  /\ calls' = calls + 1
  /\ UNCHANGED <<now, plan, ticks, prevCall, captchaVars, sessionVars, cryptoVars>>

RateTick == Tick(RateDeltas)

NextRate == RateReplay \/ RateRequest \/ RateReset \/ RateTick

SpecRate == InitRate /\ [][NextRate]_vars

\* ====================================================== CaptchaGenerator
\* Strings are sequences of characters.
UpperChar(c) == IF c = "a" THEN "A" ELSE c

\* str.upper()
Upper(s) == [i \in 1..Len(s) |-> UpperChar(s[i])]

IsSpace(c) == c \in {" ", "\n"}

\* str.strip(): leading and trailing whitespace removed, inner kept
RECURSIVE LStrip(_)
LStrip(s) == IF s # <<>> /\ IsSpace(Head(s)) THEN LStrip(Tail(s)) ELSE s

RECURSIVE RStrip(_)
RStrip(s) ==
  IF s # <<>> /\ IsSpace(s[Len(s)]) THEN RStrip(SubSeq(s, 1, Len(s) - 1)) ELSE s

Strip(s) == RStrip(LStrip(s))

\* security.py:229, 263  answer.upper().strip()
Normalize(s) == Strip(Upper(s))

\* security.py:222-241  store_captcha without a db_instance
StoreCaptchaKeepsCount(storage, user_id, answer, current_time) ==
  Put(storage, user_id,
      [answer |-> Strip(Upper(answer)),
       expires_at |-> current_time + Secs(CAPTCHA_EXPIRY_SECONDS),
       attempts |-> IF Has(storage, user_id) THEN storage[user_id].attempts ELSE 0])

StoreCaptcha(storage, user_id, answer, current_time) ==
  Put(storage, user_id,
      [answer |-> Normalize(answer),
       expires_at |-> current_time + Secs(CAPTCHA_EXPIRY_SECONDS),
       attempts |-> 0])

\* security.py:252  current_time > captcha_data['expires_at']
CaptchaExpiredAtInstant(current_time, expires_at) == current_time >= expires_at

CaptchaExpired(current_time, expires_at) == current_time > expires_at

\* security.py:258  captcha_data['attempts'] > MAX_CAPTCHA_ATTEMPTS
AttemptsExceededLate(attempts) == attempts > MAX_CAPTCHA_ATTEMPTS + 1

AttemptsExceededEarly(attempts) == attempts >= MAX_CAPTCHA_ATTEMPTS

AttemptsExceeded(attempts) == attempts > MAX_CAPTCHA_ATTEMPTS

\* security.py:264  del self.captcha_storage[user_id] on a correct answer
ConsumeKept(storage, user_id) == storage

Consume(storage, user_id) == Del(storage, user_id)

\* security.py:243-277  verify_captcha without a db_instance: the storage
\* afterwards and the value returned
VerifyCaptchaResetsExpiry(storage, user_id, user_answer, current_time) ==
  IF Has(storage, user_id)
  THEN LET captcha_data == storage[user_id]
           attempts == captcha_data.attempts + 1
           counted == Put(storage, user_id,
                          [captcha_data EXCEPT
                             !.attempts = attempts,
                             !.expires_at = current_time + Secs(CAPTCHA_EXPIRY_SECONDS)])
       IN IF CaptchaExpired(current_time, captcha_data.expires_at)
          THEN [storage |-> Del(storage, user_id), result |-> FALSE, why |-> "expired"]
          ELSE IF AttemptsExceeded(attempts)
          THEN [storage |-> Del(counted, user_id), result |-> FALSE, why |-> "attempts"]
          ELSE IF captcha_data.answer = Normalize(user_answer)
          THEN [storage |-> Consume(counted, user_id), result |-> TRUE, why |-> "match"]
          ELSE [storage |-> counted, result |-> FALSE, why |-> "mismatch"]
  ELSE [storage |-> storage, result |-> FALSE, why |-> "absent"]

VerifyCaptcha(storage, user_id, user_answer, current_time) ==
  IF Has(storage, user_id)
  THEN LET captcha_data == storage[user_id]
           attempts == captcha_data.attempts + 1
           counted == Put(storage, user_id, [captcha_data EXCEPT !.attempts = attempts])
       IN IF CaptchaExpired(current_time, captcha_data.expires_at)
          THEN [storage |-> Del(storage, user_id), result |-> FALSE, why |-> "expired"]
          ELSE IF AttemptsExceeded(attempts)
          THEN [storage |-> Del(counted, user_id), result |-> FALSE, why |-> "attempts"]
          ELSE IF captcha_data.answer = Normalize(user_answer)
          THEN [storage |-> Consume(counted, user_id), result |-> TRUE, why |-> "match"]
          ELSE [storage |-> counted, result |-> FALSE, why |-> "mismatch"]
  ELSE [storage |-> storage, result |-> FALSE, why |-> "absent"]

\* Answers and candidates: a word, its case and whitespace variants, the same
\* letters with an inner space, and other words.
CaptchaTexts ==
  { <<"a", "7">>, <<"A", "7">>, <<" ", "a", "7", " ">>, <<"a", " ", "7">>, <<"7">> }

CaptchaDeltas ==
  { 1, Secs(CAPTCHA_EXPIRY_SECONDS) - 1, Secs(CAPTCHA_EXPIRY_SECONDS) }

Op(name, user_id, text) == [op |-> name, user |-> user_id, text |-> text]

\* What the engine sees first: nothing, a challenge, or a challenge followed
\* by two or by three wrong answers.
CaptchaHistories ==
  { <<>>,
    << Op("store_captcha", 1, <<" ", "a", "7", " ">>) >>,
    << Op("store_captcha", 1, <<"a", "7">>), Op("verify_captcha", 1, <<"7">>),
       Op("verify_captcha", 1, <<"a", " ", "7">>) >>,
    << Op("store_captcha", 1, <<"a", "7">>), Op("verify_captcha", 1, <<"7">>),
       Op("verify_captcha", 1, <<"7">>), Op("verify_captcha", 1, <<"a", " ", "7">>) >> }

IdleRate ==
  /\ requests = EmptyDict
  /\ failed_attempts = EmptyDict
  /\ locked_users = EmptyDict
  /\ allowed = PairLogs
  /\ denied = [u \in Users |-> <<>>]
  /\ prevCall = [u \in Users |-> NoCall]

InitCaptcha ==
  /\ plan \in CaptchaHistories
  /\ now = 0
  /\ calls = 0
  /\ ticks = 0
  /\ captcha_storage = EmptyDict
  /\ stored = [u \in Users |-> NoChallenge]
  /\ IdleDatabase
  /\ IdleHandlers
  /\ last = NoCall
  /\ IdleRate
  /\ IdleSessions
  /\ IdleCrypto

\* store_captcha(user_id, answer) at the current clock reading
Stores(user_id, answer) ==
  /\ captcha_storage' = StoreCaptcha(captcha_storage, user_id, answer, now)
  /\ stored' = [stored EXCEPT ![user_id] =
                  [set |-> TRUE, answer |-> answer, t |-> now, tries |-> 0, done |-> FALSE,
                   old |-> IF Has(captcha_storage, user_id)
                           THEN [live |-> TRUE, answer |-> stored[user_id].answer,
                                 attempts |-> captcha_storage[user_id].attempts]
                           ELSE [live |-> FALSE, answer |-> <<>>, attempts |-> 0]]]

DoStore(user_id, answer) ==
  /\ Stores(user_id, answer)
  /\ UNCHANGED <<captcha_sessions, inflight, user_states>>
  /\ last' = [op |-> "store_captcha", user |-> user_id, text |-> answer,
              t |-> now, result |-> TRUE]

\* verify_captcha(user_id, user_answer) at the current clock reading
DoVerify(user_id, user_answer) ==
  LET r == VerifyCaptcha(captcha_storage, user_id, user_answer, now) IN
    /\ captcha_storage' = r.storage
    /\ UNCHANGED <<captcha_sessions, inflight, user_states>>
    /\ stored' = IF ~stored[user_id].set THEN stored
                 ELSE [stored EXCEPT ![user_id].tries = @ + 1,
                                     ![user_id].done = @ \/ r.result]
    /\ last' = [op |-> "verify_captcha", user |-> user_id, text |-> user_answer,
                t |-> now, result |-> r.result, why |-> r.why,
                challenge |-> stored[user_id]]

DoCaptchaOp(o) ==
  IF o.op = "store_captcha" THEN DoStore(o.user, o.text) ELSE DoVerify(o.user, o.text)

CaptchaReplay ==
  /\ plan # <<>>
  /\ "text" \in DOMAIN Head(plan)
  /\ DoCaptchaOp(Head(plan))
  /\ plan' = Tail(plan)
  /\ UNCHANGED <<now, calls, ticks, rateVars, sessionVars, cryptoVars>>

CaptchaStore ==
  /\ plan = <<>>
  /\ calls < MaxCalls
  /\ \E u \in Users, text \in CaptchaTexts : DoStore(u, text)
  /\ calls' = calls + 1
  /\ UNCHANGED <<now, plan, ticks, rateVars, sessionVars, cryptoVars>>

CaptchaVerify ==
  /\ plan = <<>>
  /\ calls < MaxCalls
  /\ \E u \in Users, text \in CaptchaTexts : DoVerify(u, text)
  /\ calls' = calls + 1
  /\ UNCHANGED <<now, plan, ticks, rateVars, sessionVars, cryptoVars>>

CaptchaTick == Tick(CaptchaDeltas)

NextCaptcha == CaptchaReplay \/ CaptchaStore \/ CaptchaVerify \/ CaptchaTick

SpecCaptcha == InitCaptcha /\ [][NextCaptcha]_vars

\* ======================================================== SessionManager
\* Tokens are numbered in the order secrets.token_urlsafe(32) returns them:
\* 256 random bits, so a token is never returned twice.
NextTokenRecycled ==
  CHOOSE n \in 1..(Cardinality(issued) + 1) :
    /\ n \notin DOMAIN sessions
    /\ \A m \in 1..(n - 1) : m \in DOMAIN sessions

NextToken == Cardinality(issued) + 1

\* A token string no create_session has returned.
ForgedToken == 0

\* security.py:600  oldest_token = None
NoToken == -1

Manager == [sessions |-> sessions, user_sessions |-> user_sessions]

\* security.py:555-574  revoke_session
RevokeSessionKeepsIndex(M, session_token) ==
  IF Has(M.sessions, session_token)
  THEN [sessions |-> Del(M.sessions, session_token), user_sessions |-> M.user_sessions]
  ELSE M

RevokeSessionKeepsStore(M, session_token) ==
  IF Has(M.sessions, session_token)
  THEN LET user_id == M.sessions[session_token].user_id
           Other(token) == token # session_token
       IN [sessions |-> M.sessions,
           user_sessions |->
             IF Has(M.user_sessions, user_id)
             THEN Put(M.user_sessions, user_id,
                      SelectSeq(M.user_sessions[user_id], Other))
             ELSE M.user_sessions]
  ELSE M

RevokeSession(M, session_token) ==
  IF Has(M.sessions, session_token)
  THEN LET user_id == M.sessions[session_token].user_id
           Other(token) == token # session_token
       IN [sessions |-> Del(M.sessions, session_token),
           user_sessions |->
             IF Has(M.user_sessions, user_id)
             THEN Put(M.user_sessions, user_id,
                      SelectSeq(M.user_sessions[user_id], Other))
             ELSE M.user_sessions]
  ELSE M

\* security.py:603-608  the scan for the oldest session: the token found so
\* far (None at first) and its time (the clock at first)
RECURSIVE FindOldest(_, _, _, _)
FindOldest(M, tokens, oldest_token, oldest_time) ==
  IF tokens = <<>> THEN oldest_token
  ELSE LET token == Head(tokens) IN
       IF Has(M.sessions, token) /\ M.sessions[token].created_at < oldest_time
       THEN FindOldest(M, Tail(tokens), token, M.sessions[token].created_at)
       ELSE FindOldest(M, Tail(tokens), oldest_token, oldest_time)

\* security.py:590-611  _cleanup_oldest_session, reading the clock as utcnow
CleanupOldestSessionYoungest(M, user_id, utcnow) ==
  IF ~Has(M.user_sessions, user_id) THEN M
  ELSE IF M.user_sessions[user_id] = <<>> THEN M
  ELSE RevokeSession(M, M.user_sessions[user_id][Len(M.user_sessions[user_id])])

CleanupOldestSession(M, user_id, utcnow) ==
  IF ~Has(M.user_sessions, user_id) THEN M
  ELSE IF M.user_sessions[user_id] = <<>> THEN M
  ELSE LET oldest_token == FindOldest(M, M.user_sessions[user_id], NoToken, utcnow)
       IN IF oldest_token # NoToken THEN RevokeSession(M, oldest_token) ELSE M

\* security.py:500-501  the concurrent-sessions check
AtSessionCap(M, user_id) ==
  LET count == IF Has(M.user_sessions, user_id)
               THEN Len(M.user_sessions[user_id]) ELSE 0
  IN count >= MAX_CONCURRENT_SESSIONS

\* security.py:496-531  create_session with additional_data = None.  reads
\* are the four clock reads in order: of _cleanup_oldest_session (taken only
\* at the cap), of created_at, of expires_at and of last_activity.
CreateSession(M, user_id, session_token, reads) ==
  LET C == IF AtSessionCap(M, user_id)
           THEN CleanupOldestSession(M, user_id, reads[1]) ELSE M
      session_data ==
        [user_id |-> user_id,
         created_at |-> reads[2],
         expires_at |-> reads[3] + Secs(SESSION_TIMEOUT_SECONDS),
         ip_address |-> None,
         user_agent |-> None,
         last_activity |-> reads[4]]
      tokens == IF Has(C.user_sessions, user_id) THEN C.user_sessions[user_id] ELSE <<>>
  IN [sessions |-> Put(C.sessions, session_token, session_data),
      user_sessions |-> Put(C.user_sessions, user_id, Append(tokens, session_token))]

\* security.py:542  datetime.utcnow() > session_data['expires_at']
SessionExpiredAtInstant(utcnow, expires_at) == utcnow >= expires_at

SessionExpired(utcnow, expires_at) == utcnow > expires_at

\* security.py:547  session_data['last_activity'] = datetime.utcnow()
TouchSessionSliding(session_data, utcnow) ==
  [session_data EXCEPT !.last_activity = utcnow,
                       !.expires_at = utcnow + Secs(SESSION_TIMEOUT_SECONDS)]

TouchSession(session_data, utcnow) == [session_data EXCEPT !.last_activity = utcnow]

\* security.py:533-553  validate_session: the manager afterwards and whether
\* session data (rather than None) is returned.  reads are the clock reads of
\* the expiry check and of last_activity.
ValidateSession(M, session_token, reads) ==
  IF ~Has(M.sessions, session_token)
  THEN [manager |-> M, valid |-> FALSE]
  ELSE IF SessionExpired(reads[1], M.sessions[session_token].expires_at)
  THEN [manager |-> RevokeSession(M, session_token), valid |-> FALSE]
  ELSE [manager |-> [M EXCEPT !.sessions =
                       Put(M.sessions, session_token,
                           TouchSession(M.sessions[session_token], reads[2]))],
        valid |-> TRUE]

\* security.py:576-588  revoke_all_user_sessions
RevokeAllUserSessionsIndexOnly(M, user_id) ==
  IF Has(M.user_sessions, user_id)
  THEN [sessions |-> M.sessions, user_sessions |-> Del(M.user_sessions, user_id)]
  ELSE M

RevokeAllUserSessions(M, user_id) ==
  IF Has(M.user_sessions, user_id)
  THEN LET mine == {M.user_sessions[user_id][i] : i \in 1..Len(M.user_sessions[user_id])}
       IN [sessions |-> [t \in (DOMAIN M.sessions) \ mine |-> M.sessions[t]],
           user_sessions |-> Del(M.user_sessions, user_id)]
  ELSE M

\* Revoking a set of tokens one after the other (the order does not matter:
\* each revocation touches its own token only).
RECURSIVE RevokeEach(_, _)
RevokeEach(M, tokens) ==
  IF tokens = {} THEN M
  ELSE LET token == CHOOSE t \in tokens : TRUE
       IN RevokeEach(RevokeSession(M, token), tokens \ {token})

\* security.py:613-629  cleanup_expired_sessions
CleanupExpiredSessions(M, current_time) ==
  LET expired_tokens ==
        {t \in DOMAIN M.sessions : SessionExpired(current_time, M.sessions[t].expires_at)}
  IN RevokeEach(M, expired_tokens)

\* n clock reads of a handler that starts at time `at`; the clock ticks once
\* just before read number `cross`, or not at all while the handler runs
\* (cross = n + 1).
Reads(at, n, cross) == [i \in 1..n |-> IF i >= cross THEN at + 1 ELSE at]

\* The user's sessions in index order, as (token, created_at) pairs.
Held(user_id) ==
  IF Has(user_sessions, user_id)
  THEN [i \in 1..Len(user_sessions[user_id]) |->
          [token |-> user_sessions[user_id][i],
           created_at |-> sessions[user_sessions[user_id][i]].created_at]]
  ELSE <<>>

\* create_session(user_id) entered at time `at`
DoCreate(user_id, at, cross) ==
  LET atCap == AtSessionCap(Manager, user_id)
      reads == IF atCap THEN Reads(at, 4, cross) ELSE <<at>> \o Reads(at, 3, cross)
      M == CreateSession(Manager, user_id, NextToken, reads)
  IN /\ sessions' = M.sessions
     /\ user_sessions' = M.user_sessions
     /\ issued' = issued \cup {NextToken}
     /\ now' = reads[4]
     /\ last' = [op |-> "create_session", user |-> user_id, token |-> NextToken,
                 t |-> at, held |-> Held(user_id)]

NoSession == [user_id |-> 0]

\* validate_session(session_token) entered at time `at`
DoValidate(session_token, at, cross) ==
  LET reads == Reads(at, 2, cross)
      r == ValidateSession(Manager, session_token, reads)
  IN /\ sessions' = r.manager.sessions
     /\ user_sessions' = r.manager.user_sessions
     /\ now' = IF r.valid THEN reads[2] ELSE at
     /\ last' = [op |-> "validate_session", token |-> session_token, t |-> at,
                 valid |-> r.valid,
                 session |-> IF Has(sessions, session_token)
                             THEN sessions[session_token] ELSE NoSession]
     /\ UNCHANGED issued

DoSessionOp(o) ==
  IF o.op = "create_session" THEN DoCreate(o.user, now + o.gap, 5)
  ELSE DoValidate(o.token, now + o.gap, 3)

\* What the manager sees first: nothing; three sessions of one principal
\* created within one tick; three created a tick apart; a session that is
\* validated as soon as it is created and again a second before its timeout.
SessionHistories ==
  { <<>>,
    << [op |-> "create_session", user |-> 1, gap |-> 0],
       [op |-> "create_session", user |-> 1, gap |-> 0],
       [op |-> "create_session", user |-> 1, gap |-> 0] >>,
    << [op |-> "create_session", user |-> 1, gap |-> 0],
       [op |-> "create_session", user |-> 1, gap |-> 1],
       [op |-> "create_session", user |-> 1, gap |-> 1] >>,
    << [op |-> "create_session", user |-> 1, gap |-> 0],
       [op |-> "validate_session", token |-> 1, gap |-> 0],
       [op |-> "validate_session", token |-> 1,
        gap |-> Secs(SESSION_TIMEOUT_SECONDS) - Secs(1)] >> }

\* Clock advances between handlers; single ticks come from the handlers'
\* own clock reads.
SessionDeltas == { Secs(2), Secs(SESSION_TIMEOUT_SECONDS) }

InitSession ==
  /\ plan \in SessionHistories
  /\ now = 0
  /\ calls = 0
  /\ ticks = 0
  /\ IdleSessions
  /\ last = NoCall
  /\ IdleRate
  /\ IdleCaptcha
  /\ IdleCrypto

SessionReplay ==
  /\ plan # <<>>
  /\ {"op", "gap"} \subseteq DOMAIN Head(plan)
  /\ DoSessionOp(Head(plan))
  /\ plan' = Tail(plan)
  /\ UNCHANGED <<calls, ticks, pending, rateVars, captchaVars, cryptoVars>>

SessionCreate ==
  /\ plan = <<>>
  /\ calls < MaxCalls
  /\ \E u \in Users, cross \in 2..5 : DoCreate(u, now, cross)
  /\ calls' = calls + 1
  /\ UNCHANGED <<plan, ticks, pending, rateVars, captchaVars, cryptoVars>>

SessionValidate ==
  /\ plan = <<>>
  /\ calls < MaxCalls
  /\ \E token \in issued \cup {ForgedToken}, cross \in 2..3 : DoValidate(token, now, cross)
  /\ calls' = calls + 1
  /\ UNCHANGED <<plan, ticks, pending, rateVars, captchaVars, cryptoVars>>

SessionRevoke ==
  /\ plan = <<>>
  /\ calls < MaxCalls
  /\ \E token \in issued \cup {ForgedToken} :
       LET M == RevokeSession(Manager, token) IN
         /\ sessions' = M.sessions
         /\ user_sessions' = M.user_sessions
         /\ last' = [op |-> "revoke_session", token |-> token, t |-> now,
                     before |-> Manager]
  /\ calls' = calls + 1
  /\ UNCHANGED <<now, plan, ticks, issued, pending, rateVars, captchaVars, cryptoVars>>

SessionRevokeAll ==
  /\ plan = <<>>
  /\ calls < MaxCalls
  /\ \E u \in Users :
       LET M == RevokeAllUserSessions(Manager, u) IN
         /\ sessions' = M.sessions
         /\ user_sessions' = M.user_sessions
         /\ last' = [op |-> "revoke_all_user_sessions", user |-> u, t |-> now,
                     before |-> Manager]
  /\ calls' = calls + 1
  /\ UNCHANGED <<now, plan, ticks, issued, pending, rateVars, captchaVars, cryptoVars>>

SessionSweep ==
  /\ plan = <<>>
  /\ calls < MaxCalls
  /\ LET M == CleanupExpiredSessions(Manager, now) IN
       /\ sessions' = M.sessions
       /\ user_sessions' = M.user_sessions
       /\ last' = [op |-> "cleanup_expired_sessions", t |-> now,
                     before |-> Manager]
  /\ calls' = calls + 1
  /\ UNCHANGED <<now, plan, ticks, issued, pending, rateVars, captchaVars, cryptoVars>>

SessionTick == Tick(SessionDeltas)

NextSession ==
  \/ SessionReplay
  \/ SessionCreate
  \/ SessionValidate
  \/ SessionRevoke
  \/ SessionRevokeAll
  \/ SessionSweep
  \/ SessionTick

SpecSession == InitSession /\ [][NextSession]_vars

\* =========================================================== CryptoUtils
\* Values a call returns or raises.
Ok(v) == [ok |-> TRUE, value |-> v, error |-> "none"]
Raise(e) == [ok |-> FALSE, value |-> <<>>, error |-> e]

\* str(user_id) inside the f-string: the decimal digits of the number
DigitChars == <<"0", "1", "2", "3", "4", "5", "6", "7", "8", "9">>

RECURSIVE Decimal(_)
Decimal(n) ==
  IF n < 10 THEN <<DigitChars[n + 1]>>
  ELSE Decimal(n \div 10) \o <<DigitChars[(n % 10) + 1]>>

\* security.py:431, 454  f"{self.master_key}:{user_id}"
KeyPasswordShared(master, user_id) == master

KeyPassword(master, user_id) == master \o <<":">> \o Decimal(user_id)

\* security.py:414-422  _derive_key.  PBKDF2-HMAC-SHA256 is taken to be
\* collision-free: the key stands for the (password, salt) pair it is
\* derived from.
DeriveKey(password, salt) == [password |-> password, salt |-> salt]

\* str.encode(): UTF-8, one byte for "k", two for the accented letter
Utf8(c) == IF c = "e_acute" THEN <<195, 169>> ELSE <<107>>

RECURSIVE EncodeStr(_)
EncodeStr(s) == IF s = <<>> THEN <<>> ELSE Utf8(Head(s)) \o EncodeStr(Tail(s))

\* bytes.decode(): UTF-8, raising on bytes that are no UTF-8
RECURSIVE DecodeAscii(_)
DecodeAscii(b) ==
  IF b = <<>> THEN Ok(<<>>)
  ELSE IF Head(b) = 107
  THEN LET rest == DecodeAscii(Tail(b))
       IN IF rest.ok THEN Ok(<<"k">> \o rest.value) ELSE rest
  ELSE Raise("UnicodeDecodeError")

RECURSIVE DecodeBytes(_)
DecodeBytes(b) ==
  IF b = <<>> THEN Ok(<<>>)
  ELSE IF Head(b) = 107
  THEN LET rest == DecodeBytes(Tail(b))
       IN IF rest.ok THEN Ok(<<"k">> \o rest.value) ELSE rest
  ELSE IF Len(b) >= 2 /\ b[1] = 195 /\ b[2] = 169
  THEN LET rest == DecodeBytes(SubSeq(b, 3, Len(b)))
       IN IF rest.ok THEN Ok(<<"e_acute">> \o rest.value) ELSE rest
  ELSE Raise("UnicodeDecodeError")

\* Fernet(key).encrypt / decrypt: authenticated encryption, taken to be
\* ideal.  A token names the key and the data it was made from; `intact`
\* is false once any of its bytes has been changed, and then, as under any
\* other key, its HMAC does not verify.
FernetEncrypt(key, data) == [key |-> key, data |-> data, intact |-> TRUE]

FernetDecrypt(key, token) ==
  IF token.intact /\ token.key = key THEN Ok(token.data) ELSE Raise("InvalidToken")

\* base64.urlsafe_b64encode / urlsafe_b64decode.  A text is the bytes it
\* carries and its form: "clean" as the encoder writes it, "junk" with
\* characters outside the alphabet added (the decoder discards them),
\* "badpad" with its padding broken (the decoder raises).
B64Encode(bytes) == [bytes |-> bytes, form |-> "clean"]

B64Decode(text) ==
  IF text.form = "badpad" THEN Raise("binascii.Error") ELSE Ok(text.bytes)

\* secrets.token_bytes(SALT_LENGTH): 256 random bits, never drawn twice
NextSalt == [id |-> Cardinality(vault) + 1, length |-> SALT_LENGTH]

\* security.py:424-445  encrypt_private_key
EncryptPrivateKey(master, private_key, user_id, salt) ==
  LET derived_key == DeriveKey(KeyPassword(master, user_id), salt)
      encrypted_data == FernetEncrypt(derived_key, EncodeStr(private_key))
  IN [encrypted_data |-> B64Encode(encrypted_data),
      salt |-> B64Encode(salt),
      algorithm |-> "fernet-pbkdf2"]

\* security.py:447-465  decrypt_private_key
DecryptPrivateKey(master, encrypted_data, user_id) ==
  LET salt == B64Decode(encrypted_data.salt) IN
  IF ~salt.ok THEN salt
  ELSE LET derived_key == DeriveKey(KeyPassword(master, user_id), salt.value)
           encrypted_bytes == B64Decode(encrypted_data.encrypted_data)
       IN IF ~encrypted_bytes.ok THEN encrypted_bytes
          ELSE LET decrypted_data == FernetDecrypt(derived_key, encrypted_bytes.value)
               IN IF ~decrypted_data.ok THEN decrypted_data
                  ELSE DecodeBytes(decrypted_data.value)

\* Private keys given to encrypt: the empty one, short ones, a longer one
\* with a letter outside ASCII.
PlainTexts ==
  { <<>>, <<"k">>, <<"e_acute">>, <<"k", "e_acute", "k", "k", "e_acute">> }

MasterKeys == { <<"m">>, <<"m", ":", "1">> }

\* What a caller may present in place of a produced EncryptedSecret v: v
\* itself, or v with one field changed.
Presented(v, how, others) ==
  CASE how = "unmodified" -> {v.secret}
    [] how = "salt_junk" -> {[v.secret EXCEPT !.salt.form = "junk"]}
    [] how = "salt_badpad" -> {[v.secret EXCEPT !.salt.form = "badpad"]}
    [] how = "salt_other" -> {[v.secret EXCEPT !.salt.bytes.id = 0]}
    [] how = "data_junk" -> {[v.secret EXCEPT !.encrypted_data.form = "junk"]}
    [] how = "data_badpad" -> {[v.secret EXCEPT !.encrypted_data.form = "badpad"]}
    [] how = "data_flipped" -> {[v.secret EXCEPT !.encrypted_data.bytes.intact = FALSE]}
    [] how = "data_swapped" ->
         {[v.secret EXCEPT !.encrypted_data = w.secret.encrypted_data] : w \in others}
    [] how = "algorithm" -> {[v.secret EXCEPT !.algorithm = "aes-gcm"]}

Changes ==
  { "unmodified", "salt_junk", "salt_badpad", "salt_other", "data_junk",
    "data_badpad", "data_flipped", "data_swapped", "algorithm" }

InitCrypto ==
  /\ master_key \in MasterKeys
  /\ vault = {}
  /\ plan = <<>>
  /\ now = 0
  /\ calls = 0
  /\ ticks = 0
  /\ last = NoCall
  /\ IdleRate
  /\ IdleCaptcha
  /\ IdleSessions

\* encrypt_private_key(private_key, user_id); the vault remembers what was
\* produced, for whom and from what.
CryptoEncrypt ==
  /\ calls < MaxCalls
  /\ \E private_key \in PlainTexts, u \in Users :
       LET secret == EncryptPrivateKey(master_key, private_key, u, NextSalt) IN
         /\ vault' = vault \cup {[secret |-> secret, user |-> u, plaintext |-> private_key]}
         /\ last' = [op |-> "encrypt_private_key", user |-> u, result |-> Ok(secret)]
  /\ calls' = calls + 1
  /\ UNCHANGED <<now, plan, ticks, master_key, rateVars, captchaVars, sessionVars>>

\* decrypt_private_key(encrypted_data, user_id) on a produced secret or a
\* changed copy of one
CryptoDecrypt ==
  /\ \E v \in vault, how \in Changes, u \in Users :
       \E encrypted_data \in Presented(v, how, vault \ {v}) :
         last' = [op |-> "decrypt_private_key", user |-> u, given |-> encrypted_data,
                  how |-> how, from |-> v,
                  result |-> DecryptPrivateKey(master_key, encrypted_data, u)]
  /\ UNCHANGED <<clockVars, master_key, vault, rateVars, captchaVars, sessionVars>>

NextCrypto == CryptoEncrypt \/ CryptoDecrypt

SpecCrypto == InitCrypto /\ [][NextCrypto]_vars

\* ------------------------------------------------ claims on the limiter

IsAllowCall == last.op = "allow_request"

\* C1: a principal's allow_request on an endpoint on which 30 requests were
\* allowed (since any administrative reset) within the 60 seconds before it,
\* i.e. less than 60 seconds ago, returns false.
C1_MinuteLimit ==
  (IsAllowCall /\ last.minuteCount >= MAX_REQUESTS_PER_MINUTE) => ~last.result

\* The 31st request of a principal that is not locked out meets a full window.
C1_Witness ==
  /\ IsAllowCall
  /\ last.minuteCount >= MAX_REQUESTS_PER_MINUTE
  /\ last.lockedUntil = -1
  /\ last.cause = "minute"

\* Five window-limit denials, the first less than 300 s before the fifth,
\* and t still before the fifth one's time + 300 s.
LockDue(denials, t) ==
  \E k \in MAX_LOGIN_ATTEMPTS..Len(denials) :
    /\ denials[k] - denials[k - MAX_LOGIN_ATTEMPTS + 1] < Secs(FailureHorizonSeconds)
    /\ t < denials[k] + Secs(LOGIN_LOCKOUT_DURATION)

\* C2: once 5 requests of a principal were denied by a window limit within
\* 5 minutes, every allow_request of that principal at a time before the
\* 5th denial + 300 s returns false, whatever the windows hold.
C2_Lockout ==
  (IsAllowCall /\ LockDue(last.denials, last.t)) => ~last.result

\* A request during the lockout that both windows alone would have allowed.
C2_Witness ==
  /\ IsAllowCall
  /\ LockDue(last.denials, last.t)
  /\ last.minuteCount < MAX_REQUESTS_PER_MINUTE
  /\ last.hourCount < MAX_REQUESTS_PER_HOUR
  /\ ~last.result

\* The principal's previous call was a minute-limit rejection on the same
\* endpoint that left it without a lockout, with its hour window below 200,
\* and at least 60 s have passed since.
RecoveryCase ==
  /\ IsAllowCall
  /\ last.prev.op = "allow_request"
  /\ last.prev.cause = "minute"
  /\ last.prev.endpoint = last.endpoint
  /\ ~last.prev.lockedAfter
  /\ last.prev.hourCount < MAX_REQUESTS_PER_HOUR
  /\ last.t - last.prev.t >= Secs(MinuteWindowSeconds)

\* C9: after a minute-limit rejection that leaves the principal without a
\* lockout and with its hour window below 200, the principal's next
\* allow_request on that endpoint, 60 s or more later, returns true.
C9_Recovery == RecoveryCase => last.result

\* The recovery exactly 60 s after the rejection.
C9_Witness ==
  /\ RecoveryCase
  /\ last.t - last.prev.t = Secs(MinuteWindowSeconds)
  /\ last.result

\* The call found a lockout record whose unlock time had come.
UnlockCase ==
  /\ IsAllowCall
  /\ last.lockedUntil # -1
  /\ last.t >= last.lockedUntil

\* C10: an allow_request at a time t >= unlock_time is decided by the window
\* counts alone (true exactly when both are under their limits) and leaves
\* no lockout record for the principal.
C10_UnlockBoundary ==
  UnlockCase =>
    /\ last.result = (/\ last.minuteCount < MAX_REQUESTS_PER_MINUTE
                      /\ last.hourCount < MAX_REQUESTS_PER_HOUR)
    /\ ~Has(locked_users, last.user)

\* A request exactly at unlock_time, allowed.
C10_Witness ==
  /\ UnlockCase
  /\ last.t = last.lockedUntil
  /\ last.result
  /\ ~Has(locked_users, last.user)

\* ------------------------------------------------- claims on the CAPTCHA

\* Equal up to letter case and surrounding whitespace: between the first and
\* the last non-blank character the two texts agree letter by letter, case
\* apart.
Blank(s) == \A i \in 1..Len(s) : s[i] = " "

First(s) == CHOOSE i \in 1..Len(s) : s[i] # " " /\ \A j \in 1..(i - 1) : s[j] = " "

Last(s) == CHOOSE i \in 1..Len(s) : s[i] # " " /\ \A j \in (i + 1)..Len(s) : s[j] = " "

SameLetter(c, d) == c = d \/ {c, d} = {"a", "A"}

SameUpToCaseAndSpace(x, y) ==
  IF Blank(x) \/ Blank(y) THEN Blank(x) /\ Blank(y)
  ELSE /\ Last(x) - First(x) = Last(y) - First(y)
       /\ \A k \in 0..(Last(x) - First(x)) : SameLetter(x[First(x) + k], y[First(y) + k])

IsVerifyCall == last.op = "verify_captcha" /\ last.challenge.set

Matches == SameUpToCaseAndSpace(last.text, last.challenge.answer)

\* C3: after a store, a candidate equal to the stored answer up to case and
\* surrounding whitespace verifies true when it comes before the expiry,
\* within the three attempts and before any success; and once a verify has
\* returned true, every later verify returns false until the next store.
C3_SingleUse ==
  IsVerifyCall =>
    /\ (/\ Matches
        /\ ~last.challenge.done
        /\ last.challenge.tries < MAX_CAPTCHA_ATTEMPTS
        /\ last.t <= last.challenge.t + Secs(CAPTCHA_EXPIRY_SECONDS)) => last.result
    /\ last.challenge.done => ~last.result

\* The correct answer, in another case or padded, submitted again after it
\* has verified true.
C3_Witness ==
  /\ IsVerifyCall
  /\ Matches
  /\ last.text # last.challenge.answer
  /\ last.challenge.done
  /\ last.challenge.tries = 1
  /\ ~last.result

\* C4: after three verify calls on a challenge none of which matched, the
\* 4th returns false and the challenge is deleted, and every later one, the
\* correct answer included, returns false.
C4_Exhaustion ==
  (IsVerifyCall /\ last.challenge.tries >= MAX_CAPTCHA_ATTEMPTS) =>
    ~last.result /\ ~Has(captcha_storage, last.user)

\* The correct answer submitted after four wrong ones.
C4_Witness ==
  /\ IsVerifyCall
  /\ last.challenge.tries = MAX_CAPTCHA_ATTEMPTS + 1
  /\ ~last.challenge.done
  /\ Matches
  /\ last.t <= last.challenge.t + Secs(CAPTCHA_EXPIRY_SECONDS)
  /\ ~last.result

\* ------------------------------------------------ claims on the sessions

\* validate_session(token) called now would return the session.
ValidNow(token) == ValidateSession(Manager, token, <<now, now>>).valid

Indexed(token) ==
  \E u \in DOMAIN user_sessions :
    \E i \in 1..Len(user_sessions[u]) : user_sessions[u][i] = token

CreatedAtCap == last.op = "create_session" /\ Len(last.held) = MAX_CONCURRENT_SESSIONS

\* Of the sessions the principal held, exactly the i-th is gone.
Evicted(i) ==
  /\ \A j \in 1..Len(last.held) : last.held[i].created_at <= last.held[j].created_at
  /\ ~Has(sessions, last.held[i].token)
  /\ ~ValidNow(last.held[i].token)
  /\ \A j \in 1..Len(last.held) :
       j # i => /\ Has(sessions, last.held[j].token)
                /\ \/ ValidNow(last.held[j].token)
                   \/ now > sessions[last.held[j].token].expires_at

\* C5: a create_session for a principal that holds 3 sessions removes
\* exactly the one of them with the earliest created_at, whose token then no
\* longer validates, while the other two (until they expire) and the new
\* token validate.
C5_Eviction ==
  CreatedAtCap =>
    /\ \E i \in 1..Len(last.held) : Evicted(i)
    /\ Has(sessions, last.token)
    /\ ValidNow(last.token) \/ now > sessions[last.token].expires_at

\* The call was a validate_session of a token that was in the session store.
ValidatedStored == last.op = "validate_session" /\ last.session.user_id # 0

Timeout == Secs(SESSION_TIMEOUT_SECONDS)

\* The session's last_activity is later than any clock reading of its
\* create_session: an earlier validate_session succeeded at that time.
ValidatedBefore == last.session.last_activity >= last.session.created_at + Secs(1)

\* C6 as stated: a session validated at t0 validates again at every time up
\* to t0 + timeout - 1 s, whenever it was created; at t0 + timeout + 1 s or
\* later it returns none.
C6_FromValidation ==
  (ValidatedStored /\ ValidatedBefore) =>
    /\ last.t <= last.session.last_activity + Timeout - Secs(1) => last.valid
    /\ last.t >= last.session.last_activity + Timeout + Secs(1) => ~last.valid

\* C6, amended: a session created at t0 validates at every time up to
\* t0 + timeout - 1 s, whatever validations came before; validated at
\* t0 + timeout + 1 s or later it returns none and is then in neither the
\* session store nor an index.
C6_Timeout ==
  ValidatedStored =>
    /\ last.t <= last.session.created_at + Timeout - Secs(1) => last.valid
    /\ last.t >= last.session.created_at + Timeout + Secs(1) =>
         ~last.valid /\ ~Has(sessions, last.token) /\ ~Indexed(last.token)

\* A session validated one second before its timeout and then one second
\* after it.
C6_Witness ==
  /\ ValidatedStored
  /\ last.session.last_activity >= last.session.created_at + Timeout - Secs(1)
  /\ last.t = last.session.created_at + Timeout + Secs(1)
  /\ ~last.valid
  /\ ~Has(sessions, last.token)

\* --------------------------------------------------- claims on the vault

Decrypted == last.op = "decrypt_private_key"

Carries(encrypted_data, v) ==
  /\ B64Decode(encrypted_data.salt) = Ok(v.secret.salt.bytes)
  /\ B64Decode(encrypted_data.encrypted_data) = Ok(v.secret.encrypted_data.bytes)

SessionsOf(user_id) == {t \in DOMAIN sessions : sessions[t].user_id = user_id}

IndexOf(user_id) == IF Has(user_sessions, user_id) THEN user_sessions[user_id] ELSE <<>>

\* C11: in every reachable state each principal has at most 3 sessions in
\* the session store and at most 3 tokens in its session index.
C11_SessionCap ==
  \A u \in Users :
    /\ Cardinality(SessionsOf(u)) <= MAX_CONCURRENT_SESSIONS
    /\ Len(IndexOf(u)) <= MAX_CONCURRENT_SESSIONS

\* ------------------------------------------ window bounds (limiter)

\* C12: every minute window holds at most 30 timestamps and every hour
\* window at most 200, and allow_request returns true neither with 30
\* requests allowed in the preceding 60 s nor with 200 allowed in the
\* preceding 3600 s (since the principal's last reset).
C12_WindowBounds ==
  /\ \A u \in DOMAIN requests : \A e \in DOMAIN requests[u] :
       /\ Len(requests[u][e].minute) <= MAX_REQUESTS_PER_MINUTE
       /\ Len(requests[u][e].hour) <= MAX_REQUESTS_PER_HOUR
  /\ (IsAllowCall /\ last.result) =>
       /\ last.minuteCount < MAX_REQUESTS_PER_MINUTE
       /\ last.hourCount < MAX_REQUESTS_PER_HOUR

\* The hour limit rejects a request that the minute window would allow.
C12_Witness ==
  /\ IsAllowCall
  /\ last.cause = "hour"
  /\ last.hourCount = MAX_REQUESTS_PER_HOUR
  /\ last.minuteCount < MAX_REQUESTS_PER_MINUTE
  /\ ~last.result
  /\ Len(requests[last.user][last.endpoint].hour) = MAX_REQUESTS_PER_HOUR

\* ------------------------------------------------ expiry (CAPTCHA)

\* The expiry instant of the challenge the call was made against.
ExpiryInstant == last.challenge.t + Secs(CAPTCHA_EXPIRY_SECONDS)

\* C13: a verify_captcha after the challenge's expiry instant returns false,
\* whatever the answer, and leaves no challenge; the correct answer up to
\* and including that instant, within the attempt budget and before any
\* success, returns true.
C13_Expiry ==
  IsVerifyCall =>
    /\ last.t > ExpiryInstant =>
         ~last.result /\ ~Has(captcha_storage, last.user)
    /\ (/\ last.t <= ExpiryInstant
        /\ Matches
        /\ last.challenge.tries < MAX_CAPTCHA_ATTEMPTS
        /\ ~last.challenge.done) => last.result /\ last.why = "match"

\* The correct answer, first submitted one tick after the expiry instant.
C13_Witness ==
  /\ IsVerifyCall
  /\ Matches
  /\ last.challenge.tries = 0
  /\ last.t = ExpiryInstant + 1
  /\ last.why = "expired"
  /\ ~last.result

\* ------------------------------------------- replacement (CAPTCHA)

\* The challenge the call was made against had replaced a live one.
Replaced == last.challenge.old.live

\* C14: store_captcha leaves the principal one challenge, with the answer
\* given, no attempts counted and the expiry 300 s after the store, whether
\* or not it had one; afterwards a verify returns true only for the answer
\* of the latest store, and that answer has the full attempt budget and
\* expiry of the new challenge.
C14_Replacement ==
  /\ last.op = "store_captcha" =>
       /\ Has(captcha_storage, last.user)
       /\ SameUpToCaseAndSpace(captcha_storage[last.user].answer, last.text)
       /\ captcha_storage[last.user].attempts = 0
       /\ captcha_storage[last.user].expires_at = last.t + Secs(CAPTCHA_EXPIRY_SECONDS)
  /\ (IsVerifyCall /\ last.result) => Matches
  /\ (/\ IsVerifyCall
      /\ Replaced
      /\ Matches
      /\ last.challenge.tries < MAX_CAPTCHA_ATTEMPTS
      /\ ~last.challenge.done
      /\ last.t <= ExpiryInstant) => last.result

\* The old answer, different from the new one, submitted after the
\* replacement.
C14_Witness ==
  /\ IsVerifyCall
  /\ Replaced
  /\ SameUpToCaseAndSpace(last.text, last.challenge.old.answer)
  /\ ~Matches
  /\ last.why = "mismatch"
  /\ ~last.result

\* --------------------------------------------- revocation (sessions)

Revoked == last.op = "revoke_session"

\* C15: revoke_session of a token that is not in the session store changes
\* neither the store nor the index, and after any revoke_session a second
\* one of the same token changes nothing: the token is in neither.
C15_RevokeIdempotent ==
  Revoked =>
    /\ ~Has(last.before.sessions, last.token) => Manager = last.before
    /\ RevokeSession(Manager, last.token) = Manager
    /\ ~Has(sessions, last.token)
    /\ ~Indexed(last.token)

\* A token that was issued and is revoked a second time.
C15_Witness ==
  /\ Revoked
  /\ last.token \in issued
  /\ ~Has(last.before.sessions, last.token)
  /\ last.before.sessions # EmptyDict
  /\ Manager = last.before

\* ------------------------------------------- revoke all (sessions)

RevokedAll == last.op = "revoke_all_user_sessions"

\* validate_session(token) called on manager M at time t would return the
\* session.
ValidIn(M, token, t) == ValidateSession(M, token, <<t, t>>).valid

\* C16: after revoke_all_user_sessions(p) no session of p is in the session
\* store, p has no index, and no token issued so far validates as p's;
\* every session of every other principal is there unchanged, with its
\* principal's index unchanged, and validates if it did before.
C16_RevokeAll ==
  RevokedAll =>
    /\ SessionsOf(last.user) = {}
    /\ ~Has(user_sessions, last.user)
    /\ \A t \in DOMAIN last.before.sessions :
         IF last.before.sessions[t].user_id = last.user
         THEN ~ValidNow(t)
         ELSE /\ Has(sessions, t)
              /\ sessions[t] = last.before.sessions[t]
              /\ ValidNow(t) = ValidIn(last.before, t, now)
    /\ \A u \in Users \ {last.user} :
         /\ Has(user_sessions, u) = Has(last.before.user_sessions, u)
         /\ Has(user_sessions, u) => user_sessions[u] = last.before.user_sessions[u]

\* A principal with several sessions is revoked while another principal
\* holds a session that validates.
C16_Witness ==
  /\ RevokedAll
  /\ Cardinality({t \in DOMAIN last.before.sessions :
                    last.before.sessions[t].user_id = last.user}) >= 2
  /\ \E t \in DOMAIN sessions : sessions[t].user_id # last.user /\ ValidNow(t)
  /\ \A t \in issued : ValidNow(t) => sessions[t].user_id # last.user

\* ------------------------------------------------ sweep (sessions)

Swept == last.op = "cleanup_expired_sessions"

\* C17: after cleanup_expired_sessions at time t, every session whose
\* expires_at is earlier than t is gone from the session store and from
\* every index, every other session is in both, unchanged, and the sweep
\* has added none.
C17_Sweep ==
  Swept =>
    /\ DOMAIN sessions \subseteq DOMAIN last.before.sessions
    /\ \A token \in DOMAIN last.before.sessions :
         IF last.t > last.before.sessions[token].expires_at
         THEN ~Has(sessions, token) /\ ~Indexed(token)
         ELSE /\ Has(sessions, token)
              /\ sessions[token] = last.before.sessions[token]
              /\ Indexed(token)

\* A sweep that removes expired sessions and keeps one that expires at
\* that very instant.
C17_Witness ==
  /\ Swept
  /\ \E token \in DOMAIN last.before.sessions :
       last.t > last.before.sessions[token].expires_at /\ ~Has(sessions, token)
  /\ \E token \in DOMAIN sessions : sessions[token].expires_at = last.t

\* ----------------------------------- administrative reset (limiter)

WasReset == last.op = "reset_user_limits"

\* Dictionary d holds for key k what dictionary c holds for it, or neither
\* holds anything.
SameEntry(d, c, k) == Has(d, k) = Has(c, k) /\ (Has(d, k) => d[k] = c[k])

\* C18: after reset_user_limits(p), p has no windows on any endpoint, no
\* failure ledger and no lockout, an allow_request(p) made then returns
\* true on every endpoint, and the windows, ledgers and lockouts of all
\* other principals are as before.
C18_Reset ==
  WasReset =>
    /\ ~Has(requests, last.user)
    /\ ~Has(failed_attempts, last.user)
    /\ ~Has(locked_users, last.user)
    /\ \A e \in Endpoints, t2 \in LaterReads(now) :
         AllowRequest(Limiter, last.user, e, now, t2).result
    /\ \A v \in Users \ {last.user} :
         /\ SameEntry(requests, last.before.requests, v)
         /\ SameEntry(failed_attempts, last.before.failed_attempts, v)
         /\ SameEntry(locked_users, last.before.locked_users, v)

\* A locked-out principal with a full minute window is reset while another
\* principal has windows of its own.
C18_Witness ==
  /\ WasReset
  /\ Has(last.before.locked_users, last.user)
  /\ last.t < last.before.locked_users[last.user]
  /\ Has(last.before.failed_attempts, last.user)
  /\ \E e \in DOMAIN last.before.requests[last.user] :
       Len(last.before.requests[last.user][e].minute) = MAX_REQUESTS_PER_MINUTE
  /\ \E v \in Users \ {last.user} : Has(requests, v)

\* ============================================ CaptchaGenerator.generate
\* Operands tried for the arithmetic family, from the range 5..25 of the
\* default difficulty: both ends and one value between.
MathOperands == {5, 12, 25}

\* security.py:159-185  _generate_math_captcha("medium"): question and answer
MathCaptcha(a, b, operation) ==
  IF operation = "+"
  THEN [question |-> <<"Berapa ">> \o Decimal(a) \o <<" + ">> \o Decimal(b) \o <<"?">>,
        answer |-> Decimal(a + b)]
  ELSE LET hi == IF a < b THEN b ELSE a
           lo == IF a < b THEN a ELSE b
       IN [question |-> <<"Berapa ">> \o Decimal(hi) \o <<" - ">> \o Decimal(lo) \o <<"?">>,
           answer |-> Decimal(hi - lo)]

\* security.py:187-197  _generate_sequence_captcha
SequenceCaptchas ==
  { [question |-> <<"Lanjutkan: 2, 4, 6, 8, ?">>, answer |-> <<"1", "0">>],
    [question |-> <<"Lanjutkan: 1, 3, 5, 7, ?">>, answer |-> <<"9">>],
    [question |-> <<"Lanjutkan: 5, 10, 15, 20, ?">>, answer |-> <<"2", "5">>],
    [question |-> <<"Lanjutkan: 1, 4, 7, 10, ?">>, answer |-> <<"1", "3">>] }

\* security.py:201-206  the words and what is asked about each
Words ==
  { [word |-> <<"T", "R", "A", "D", "I", "N", "G">>, asks |-> "huruf ke-3",
     question |-> <<"Sebutkan huruf ke-3 dari kata TRADING">>],
    [word |-> <<"S", "O", "L", "A", "N", "A">>, asks |-> "huruf terakhir",
     question |-> <<"Sebutkan huruf terakhir dari kata SOLANA">>],
    [word |-> <<"W", "A", "L", "L", "E", "T">>, asks |-> "jumlah huruf",
     question |-> <<"Berapa jumlah huruf dalam kata WALLET?">>],
    [word |-> <<"C", "R", "Y", "P", "T", "O">>, asks |-> "huruf pertama",
     question |-> <<"Sebutkan huruf pertama dari kata CRYPTO">>] }

\* security.py:199-220  _generate_word_captcha
WordCaptcha(w) ==
  [question |-> w.question,
   answer |-> IF w.asks = "huruf ke-3" THEN <<w.word[3]>>
              ELSE IF w.asks = "huruf terakhir" THEN <<w.word[Len(w.word)]>>
              ELSE IF w.asks = "jumlah huruf" THEN Decimal(Len(w.word))
              ELSE <<w.word[1]>>]

\* security.py:148-157  generate(): every pair random.choice may lead to
Generate ==
  {MathCaptcha(a, b, operation) : a \in MathOperands, b \in MathOperands,
                                  operation \in {"+", "-"}}
    \cup SequenceCaptchas
    \cup {WordCaptcha(w) : w \in Words}

\* security.py:286-289  the value generate_captcha returns on success
Returned(question, answer) == [question |-> question, answer |-> answer]

InitGenerate ==
  /\ plan = <<>>
  /\ now = 0
  /\ calls = 0
  /\ ticks = 0
  /\ captcha_storage = EmptyDict
  /\ stored = [u \in Users |-> NoChallenge]
  /\ IdleDatabase
  /\ IdleHandlers
  /\ last = NoCall
  /\ IdleRate
  /\ IdleSessions
  /\ IdleCrypto

\* security.py:279-294  generate_captcha(user_id)
CaptchaGenerate ==
  /\ calls < MaxCalls
  /\ \E u \in Users, c \in Generate :
       /\ Stores(u, c.answer)
       /\ UNCHANGED <<captcha_sessions, inflight, user_states>>
       /\ last' = [op |-> "generate_captcha", user |-> u, t |-> now,
                   expected |-> c.answer,
                   result |-> Returned(c.question, c.answer)]
  /\ calls' = calls + 1
  /\ UNCHANGED <<now, plan, ticks, rateVars, sessionVars, cryptoVars>>

\* verify_captcha(user_id, text) by the caller of generate_captcha, with
\* the answer of the principal's latest challenge or another text
GenerateVerify ==
  /\ calls < MaxCalls
  /\ \E u \in Users :
       \E text \in {<<"7">>} \cup (IF stored[u].set THEN {stored[u].answer} ELSE {}) :
         DoVerify(u, text)
  /\ calls' = calls + 1
  /\ UNCHANGED <<now, plan, ticks, rateVars, sessionVars, cryptoVars>>

NextGenerate == CaptchaGenerate \/ GenerateVerify

SpecGenerate == InitGenerate /\ [][NextGenerate]_vars

\* ------------------------------------------ what generate_captcha returns

Generated == last.op = "generate_captcha"

\* C19: the value generate_captcha returns holds the question only: it has
\* no answer field, and no field of it is the expected answer.
C19_AnswerWithheld ==
  Generated =>
    /\ DOMAIN last.result = {"question"}
    /\ \A f \in DOMAIN last.result : last.result[f] # last.expected

\* ======================================================== InputValidator
\* Percentages are kept in hundredths: 12.5 is 1250.
IsDigit(c) == c \in {"0", "1", "2", "3", "4", "5", "6", "7", "8", "9"}

DigitValue(c) == CHOOSE d \in 0..9 : DigitChars[d + 1] = c

\* str.replace('%', ''): every percent sign removed, wherever it stands
RemovePercent(s) == LET NotPercent(c) == c # "%" IN SelectSeq(s, NotPercent)

AllDigits(s, from, to) == \A i \in from..to : IsDigit(s[i])

\* security.py:362  ^\d{1,3}(\.\d{1,2})?$ on the whole text
Pattern(s) ==
  \E k \in 1..3 :
    /\ k <= Len(s)
    /\ AllDigits(s, 1, k)
    /\ \/ Len(s) = k
       \/ /\ Len(s) - k \in 2..3
          /\ s[k + 1] = "."
          /\ AllDigits(s, k + 2, Len(s))

\* re.match with $: the end of the text, or just before a final newline
ReMatch(s) ==
  \/ Pattern(s)
  \/ s # <<>> /\ s[Len(s)] = "\n" /\ Pattern(SubSeq(s, 1, Len(s) - 1))

\* The number a run of digits spells.
RECURSIVE Natural(_)
Natural(s) ==
  IF s = <<>> THEN 0
  ELSE 10 * Natural(SubSeq(s, 1, Len(s) - 1)) + DigitValue(s[Len(s)])

\* float(text) for a text of digits with at most two decimals, surrounding
\* whitespace ignored, in hundredths
Float(s) ==
  LET t == Strip(s)
      dots == {i \in 1..Len(t) : t[i] = "."}
  IN IF dots = {} THEN 100 * Natural(t)
     ELSE LET dot == CHOOSE i \in dots : TRUE
              decimals == SubSeq(t, dot + 1, Len(t))
          IN 100 * Natural(SubSeq(t, 1, dot - 1))
               + (IF Len(decimals) = 1 THEN 10 ELSE 1) * Natural(decimals)

Invalid == [valid |-> FALSE, value |-> 0]

\* security.py:353-373  validate_percentage of a string
ValidatePercentage(percent_str) ==
  IF percent_str = <<>> THEN Invalid
  ELSE LET text == RemovePercent(Strip(percent_str)) IN
       IF ~ReMatch(text) THEN Invalid
       ELSE LET percent == Float(text) IN
            IF percent < 0 \/ percent > 10000 * 100 THEN Invalid
            ELSE [valid |-> TRUE, value |-> percent]

PercentChars == {"0", "1", ".", "%", " ", "\n"}

PercentStrings == UNION {[1..n -> PercentChars] : n \in 0..MaxPercentLen}

InitValidate ==
  /\ plan \in {<<[op |-> "validate_percentage", text |-> s]>> : s \in PercentStrings}
  /\ now = 0
  /\ calls = 0
  /\ ticks = 0
  /\ last = NoCall
  /\ IdleRate
  /\ IdleCaptcha
  /\ IdleSessions
  /\ IdleCrypto

\* validate_percentage(percent_str)
ValidatePercent ==
  /\ plan # <<>>
  /\ last' = [op |-> "validate_percentage", text |-> Head(plan).text,
              result |-> ValidatePercentage(Head(plan).text)]
  /\ plan' = Tail(plan)
  /\ UNCHANGED <<now, calls, ticks, rateVars, captchaVars, sessionVars, cryptoVars>>

NextValidate == ValidatePercent

SpecValidate == InitValidate /\ [][NextValidate]_vars

\* ------------------------------------------------ percentage parsing

\* The text without surrounding whitespace and without one trailing
\* percent sign.
PercentBody(s) ==
  LET t == Strip(s)
  IN IF t # <<>> /\ t[Len(t)] = "%" THEN SubSeq(t, 1, Len(t) - 1) ELSE t

\* A well-formed percentage: digits, then possibly a point and one or two
\* digits, then possibly a percent sign.
WellFormedPercent(s) ==
  LET b == PercentBody(s)
      dots == {i \in 1..Len(b) : b[i] = "."}
  IN /\ b # <<>>
     /\ \A i \in 1..Len(b) : IsDigit(b[i]) \/ b[i] = "."
     /\ \/ dots = {}
        \/ \E d \in dots : dots = {d} /\ d > 1 /\ Len(b) - d \in 1..2

\* C20: validate_percentage returns (True, v) for every well-formed
\* percentage of value v between 0 and 10000, and (False, 0.0) for every
\* other string.
C20_Percentage ==
  last.op = "validate_percentage" =>
    IF WellFormedPercent(last.text) /\ Float(PercentBody(last.text)) <= 10000 * 100
    THEN last.result = [valid |-> TRUE, value |-> Float(PercentBody(last.text))]
    ELSE last.result = Invalid

\* -------------------------------------- lockout threshold (limiter)

\* The principal's lockout record is the one its k-th window-limit denial
\* made: the 5th within the 300 s before and at it, unlocking 300 s later.
LockedByFifth(u) ==
  \E k \in MAX_LOGIN_ATTEMPTS..Len(denied[u]) :
    /\ locked_users[u] = denied[u][k] + Secs(LOGIN_LOCKOUT_DURATION)
    /\ denied[u][k] - denied[u][k - MAX_LOGIN_ATTEMPTS + 1] < Secs(FailureHorizonSeconds)

\* The call left a lockout record that was not there before it.
NewLockout ==
  /\ IsAllowCall
  /\ last.lockedAfter
  /\ last.lockedUntil # locked_users[last.user]

\* C21: every lockout record was made by a window-limit denial that was the
\* principal's 5th within 300 s and unlocks 300 s after that denial, so a
\* principal with at most 4 denials in every 300 s has none; the call that
\* makes one is a window-limit denial that brings the ledger to 5 entries.
C21_Threshold ==
  /\ \A u \in Users : Has(locked_users, u) => LockedByFifth(u)
  /\ NewLockout =>
       /\ last.cause \in {"minute", "hour"}
       /\ Len(failed_attempts[last.user]) = MAX_LOGIN_ATTEMPTS
       /\ Len(denied[last.user]) = Len(last.denials) + 1
       /\ locked_users[last.user] =
            denied[last.user][Len(denied[last.user])] + Secs(LOGIN_LOCKOUT_DURATION)

\* The 5th denial comes one tick less than 300 s after the first and locks.
C21_Witness ==
  /\ NewLockout
  /\ Len(denied[last.user]) >= MAX_LOGIN_ATTEMPTS
  /\ LET d == denied[last.user]
     IN d[Len(d)] - d[Len(d) - MAX_LOGIN_ATTEMPTS + 1] = Secs(FailureHorizonSeconds) - 1

\* ------------------------------------- effects of one allow_request

\* This step is an allow_request, of the opening traffic or after it.
AllowStep ==
  /\ last'.op = "allow_request"
  /\ plan' # plan \/ calls' # calls

\* The windows of a principal on an endpoint; none is a pair of empty ones.
WindowsOf(reqs, u, e) ==
  IF Has(reqs, u) /\ Has(reqs[u], e) THEN reqs[u][e] ELSE NewWindows

LedgerOf(failed, u) == IF Has(failed, u) THEN failed[u] ELSE <<>>

\* C22: an allow_request rejected because the principal is locked out
\* leaves the windows of every principal and endpoint, the failure ledger
\* and the lockout records exactly as they were.
C22_LockoutFrame ==
  [][(AllowStep /\ last'.cause = "lockout") =>
       /\ requests' = requests
       /\ failed_attempts' = failed_attempts
       /\ locked_users' = locked_users]_vars

\* A rejection by lockout a minute or more after requests that are still in
\* the principal's minute window: pruning would have removed them.
C22_Witness ==
  /\ IsAllowCall
  /\ last.cause = "lockout"
  /\ \E i \in 1..Len(WindowsOf(requests, last.user, last.endpoint).minute) :
       last.t - WindowsOf(requests, last.user, last.endpoint).minute[i]
         >= Secs(MinuteWindowSeconds)

\* The entries of a window younger than `seconds` at t, in their order.
Younger(window, t, seconds) ==
  LET Young(x) == x > t - Secs(seconds) IN SelectSeq(window, Young)

\* The windows of every other principal or endpoint are as they were.
OtherWindowsKept(u, e) ==
  \A u2 \in Users, e2 \in Endpoints :
    <<u2, e2>> # <<u, e>> =>
      WindowsOf(requests', u2, e2) = WindowsOf(requests, u2, e2)

\* C23: an allow_request denied by a window limit leaves both windows as
\* they were but for the stale entries pruned, and the principal's ledger
\* is its entries younger than 300 s followed by one new entry; an allowed
\* request is appended to both pruned windows with one timestamp and the
\* ledger is unchanged; no other window is touched.
C23_DenialFrame ==
  [][AllowStep =>
       LET u == last'.user
           e == last'.endpoint
           t == last'.t
           old == WindowsOf(requests, u, e)
           new == WindowsOf(requests', u, e)
           minute == Younger(old.minute, t, MinuteWindowSeconds)
           hour == Younger(old.hour, t, HourWindowSeconds)
       IN /\ OtherWindowsKept(u, e)
          /\ last'.cause \in {"minute", "hour"} =>
               /\ ~last'.result
               /\ new = [minute |-> minute, hour |-> hour]
               /\ LedgerOf(failed_attempts', u) =
                    Append(Younger(LedgerOf(failed_attempts, u), now',
                                   FailureHorizonSeconds), now')
          /\ last'.cause = "ok" =>
               /\ last'.result
               /\ new = [minute |-> Append(minute, t), hour |-> Append(hour, t)]
               /\ failed_attempts' = failed_attempts
          /\ last'.cause = "lockout" => ~last'.result /\ new = old]_vars

\* A denial by the full hour window when every entry of the minute window
\* has gone stale: the denial pruned the minute window and added nothing.
C23_Witness ==
  /\ IsAllowCall
  /\ last.cause = "hour"
  /\ WindowsOf(requests, last.user, last.endpoint).minute = <<>>
  /\ Len(WindowsOf(requests, last.user, last.endpoint).hour) = MAX_REQUESTS_PER_HOUR
  /\ Len(LedgerOf(failed_attempts, last.user)) = 1

\* ------------------------------------ effects of one verify_captcha

\* This step is a verify_captcha, of the opening traffic or after it.
VerifyStep ==
  /\ last'.op = "verify_captcha"
  /\ plan' # plan \/ calls' # calls

\* The candidate of this step's verify_captcha is the answer that was
\* stored, up to case and surrounding whitespace.
CorrectAnswer == SameUpToCaseAndSpace(last'.text, last'.challenge.answer)

\* The principal has a challenge in the store that has not expired.
LiveUnexpired(u) ==
  Has(captcha_storage, u) /\ now <= captcha_storage[u].expires_at

\* C24: on a live, unexpired challenge the correct answer verifies true
\* after 0, 1 or 2 earlier attempts; after 3 earlier attempts it verifies
\* false and the challenge is deleted.
C24_AttemptBudget ==
  [][(VerifyStep /\ LiveUnexpired(last'.user) /\ CorrectAnswer) =>
       LET before == captcha_storage[last'.user].attempts IN
         /\ before < MAX_CAPTCHA_ATTEMPTS => last'.result
         /\ before >= MAX_CAPTCHA_ATTEMPTS =>
              ~last'.result /\ ~Has(captcha_storage', last'.user)]_vars

\* The correct answer as the third attempt, after two wrong ones.
C24_Witness ==
  /\ IsVerifyCall
  /\ Matches
  /\ last.why = "match"
  /\ last.challenge.tries = MAX_CAPTCHA_ATTEMPTS - 1
  /\ last.result

\* C25: a verify_captcha that fails on a live, unexpired challenge with
\* attempts left changes nothing but that challenge's attempts, by +1; a
\* challenge leaves the store only in a verify of its principal that
\* succeeds, finds it expired or exceeds 3 attempts; and a verify for a
\* principal without a challenge returns false and changes nothing.
C25_MismatchFrame ==
  [][/\ \A u \in Users :
          (Has(captcha_storage, u) /\ ~Has(captcha_storage', u)) =>
            /\ VerifyStep
            /\ last'.user = u
            /\ \/ last'.result
               \/ now > captcha_storage[u].expires_at
               \/ captcha_storage[u].attempts + 1 > MAX_CAPTCHA_ATTEMPTS
     /\ VerifyStep =>
          LET u == last'.user IN
            /\ (/\ LiveUnexpired(u)
                /\ captcha_storage[u].attempts < MAX_CAPTCHA_ATTEMPTS
                /\ ~last'.result) =>
                 captcha_storage' =
                   Put(captcha_storage, u,
                       [answer |-> captcha_storage[u].answer,
                        expires_at |-> captcha_storage[u].expires_at,
                        attempts |-> captcha_storage[u].attempts + 1])
            /\ ~Has(captcha_storage, u) =>
                 ~last'.result /\ captcha_storage' = captcha_storage]_vars

\* The third wrong answer: the challenge is still there with 3 attempts.
C25_Witness ==
  /\ IsVerifyCall
  /\ last.why = "mismatch"
  /\ Has(captcha_storage, last.user)
  /\ captcha_storage[last.user].attempts = MAX_CAPTCHA_ATTEMPTS
  /\ captcha_storage[last.user].expires_at > last.t

\* ------------------------------ CaptchaGenerator with a db_instance

\* database.py:97-115  Database.store_captcha: the collection after the
\* upsert of the principal's document (created_at is never read)
DbStoreCaptcha(docs, user_id, answer, current_time) ==
  Put(docs, user_id,
      [answer |-> answer,
       expires_at |-> current_time + Secs(DocumentLifetimeSeconds)])

\* database.py:117-132  Database.verify_captcha: the collection afterwards
\* and the value returned
DbVerifyCaptcha(docs, user_id, user_answer, current_time) ==
  IF /\ Has(docs, user_id)
     /\ docs[user_id].expires_at > current_time
     /\ docs[user_id].answer = user_answer
  THEN [docs |-> Del(docs, user_id), result |-> TRUE]
  ELSE [docs |-> docs, result |-> FALSE]

InitDurable ==
  /\ plan = <<>>
  /\ now = 0
  /\ calls = 0
  /\ ticks = 0
  /\ captcha_storage = EmptyDict
  /\ stored = [u \in Users |-> NoChallenge]
  /\ IdleDatabase
  /\ IdleHandlers
  /\ last = NoCall
  /\ IdleRate
  /\ IdleSessions
  /\ IdleCrypto

\* security.py:222-236  store_captcha(user_id, answer, db_instance) up to its
\* await: the challenge is in memory, the durable write is still to come.
\* One principal: every entry and document here is keyed by the principal.
DurableStore ==
  /\ calls < MaxCalls
  /\ \E u \in {1}, answer \in {<<"a", "7">>, <<"7">>} :
       /\ Stores(u, answer)
       /\ inflight' = inflight \cup {[id |-> calls, user |-> u, answer |-> Normalize(answer)]}
       /\ last' = [op |-> "store_captcha", user |-> u, text |-> answer, t |-> now,
                   result |-> None]
  /\ calls' = calls + 1
  /\ UNCHANGED <<now, plan, ticks, captcha_sessions, user_states,
                 rateVars, sessionVars, cryptoVars>>

\* security.py:236-238  the awaited Database.store_captcha of one such call
\* completes, with the clock it reads then, and store_captcha returns
DurableStored ==
  /\ \E c \in inflight :
       /\ captcha_sessions' = DbStoreCaptcha(captcha_sessions, c.user, c.answer, now)
       /\ inflight' = inflight \ {c}
       /\ last' = [op |-> "store_captcha", user |-> c.user, text |-> c.answer, t |-> now,
                   result |-> TRUE]
  /\ UNCHANGED <<clockVars, captcha_storage, stored, user_states,
                 rateVars, sessionVars, cryptoVars>>

\* security.py:243-277  verify_captcha(user_id, user_answer, db_instance):
\* the memory path if the principal has a challenge there, else the durable
\* store.  The history counts attempts up to one past the budget.
DurableVerify ==
  /\ \E u \in {1}, text \in {<<"A", "7">>, <<"7">>} :
       LET live == Has(captcha_storage, u)
           m == VerifyCaptcha(captcha_storage, u, text, now)
           d == DbVerifyCaptcha(captcha_sessions, u, Normalize(text), now)
           result == IF live THEN m.result ELSE d.result
       IN /\ captcha_storage' = m.storage
          /\ captcha_sessions' = IF live THEN captcha_sessions ELSE d.docs
          /\ stored' = IF ~stored[u].set THEN stored
                       ELSE [stored EXCEPT
                               ![u].tries = IF @ > MAX_CAPTCHA_ATTEMPTS THEN @ ELSE @ + 1,
                               ![u].done = @ \/ result]
          /\ last' = [op |-> "verify_captcha", user |-> u, text |-> text, t |-> now,
                      result |-> result,
                      why |-> IF live THEN m.why ELSE "durable",
                      live |-> live,
                      challenge |-> stored[u]]
  /\ UNCHANGED <<clockVars, inflight, user_states, rateVars, sessionVars, cryptoVars>>

DurableTick == Tick({1, Secs(CAPTCHA_EXPIRY_SECONDS)})

NextDurable == DurableStore \/ DurableStored \/ DurableVerify \/ DurableTick

SpecDurable == InitDurable /\ [][NextDurable]_vars

\* A verify_captcha for a principal whose latest challenge is no longer in
\* memory: it was consumed, or deleted on expiry or exhaustion.
VerifyAfterRemoval ==
  /\ last.op = "verify_captcha"
  /\ last.challenge.set
  /\ ~last.live

\* C26: with a durable store, a verify_captcha for a principal whose
\* challenge was consumed by a successful verification or deleted in memory
\* on expiry or attempt exhaustion returns false, until the next store.
C26_MemoryAuthoritative == VerifyAfterRemoval => ~last.result

\* ------------------------------------------- expiry fixed at creation

\* A validate_session that returned session data left the session as it
\* was but for last_activity.
OnlyActivityTouched ==
  (last.op = "validate_session" /\ last.valid) =>
    /\ Has(sessions, last.token)
    /\ sessions[last.token] =
         [last.session EXCEPT !.last_activity = sessions[last.token].last_activity]

\* C27: every stored session has expires_at = created_at + 3600 s and
\* created_at <= last_activity, and a validate_session changes nothing of
\* a session but last_activity.
C27_FixedExpiry ==
  /\ \A token \in DOMAIN sessions :
       /\ sessions[token].expires_at =
            sessions[token].created_at + Secs(SESSION_TIMEOUT_SECONDS)
       /\ sessions[token].created_at <= sessions[token].last_activity
  /\ OnlyActivityTouched

\* ---------------------------------------------- removal is terminal

\* Tokens create_session returned that are no longer in the store: revoked,
\* evicted, swept, or found expired by validate_session.
Dead == issued \ DOMAIN sessions

\* This step is a validate_session, of the opening traffic or after it.
ValidateStep ==
  /\ last'.op = "validate_session"
  /\ plan' # plan \/ calls' # calls

\* C28: a token that has left the store stays out of it whatever is called
\* next, every validate_session of it returns None, and a validate_session
\* that returns None for a token leaves it out of the store.
C28_Terminal ==
  [][/\ \A token \in Dead :
          /\ ~Has(sessions', token)
          /\ (ValidateStep /\ last'.token = token) => ~last'.valid
     /\ (ValidateStep /\ ~last'.valid) => ~Has(sessions', last'.token)]_vars

\* A validate_session of an issued token that had left the store before a
\* later session was created.
C28_Witness ==
  /\ last.op = "validate_session"
  /\ ~last.valid
  /\ last.token \in issued
  /\ last.session = NoSession
  /\ \E later \in DOMAIN sessions : later > last.token

\* ------------------------ SessionManager coroutines on the event loop

\* security.py:613-621  cleanup_expired_sessions up to its first await: the
\* clock is read and the expired tokens are collected.  The loop of line
\* 619 has no await in it.
SweepCollect ==
  /\ plan = <<>>
  /\ calls < MaxCalls
  /\ pending.sweep = NoCall
  /\ LET expired_tokens ==
           {t \in DOMAIN sessions : SessionExpired(now, sessions[t].expires_at)}
     IN /\ pending' = [pending EXCEPT !.sweep =
                         IF expired_tokens = {} THEN NoCall
                         ELSE [op |-> "cleanup_expired_sessions", t |-> now,
                               expired_tokens |-> expired_tokens]]
        /\ last' = [op |-> "sweep_collect", t |-> now, expired_tokens |-> expired_tokens]
  /\ calls' = calls + 1
  /\ UNCHANGED <<now, plan, ticks, sessions, user_sessions, issued,
                 rateVars, captchaVars, cryptoVars>>

\* security.py:623-624  one `await self.revoke_session(token)` of the sweep.
\* Other handlers may run between two of them here, which is more than the
\* event loop does: revoke_session never suspends.
SweepRevoke ==
  /\ pending.sweep # NoCall
  /\ \E token \in pending.sweep.expired_tokens :
       LET M == RevokeSession(Manager, token)
           left == pending.sweep.expired_tokens \ {token}
       IN /\ sessions' = M.sessions
          /\ user_sessions' = M.user_sessions
          /\ pending' = [pending EXCEPT !.sweep =
                           IF left = {} THEN NoCall
                           ELSE [@ EXCEPT !.expired_tokens = left]]
          /\ last' = [op |-> "sweep_revoke", token |-> token, t |-> pending.sweep.t,
                      before |-> Manager]
  /\ UNCHANGED <<clockVars, issued, rateVars, captchaVars, cryptoVars>>

\* A create_session or validate_session coroutine is handed to the event
\* loop; its body has not begun.
CallSubmit ==
  /\ plan = <<>>
  /\ calls < MaxCalls
  /\ pending.call = NoCall
  /\ \E c \in {[op |-> "create_session", user |-> u] : u \in Users}
                \cup {[op |-> "validate_session", token |-> t] : t \in issued} :
       /\ pending' = [pending EXCEPT !.call = c]
       /\ last' = [op |-> "submit", call |-> c, t |-> now]
  /\ calls' = calls + 1
  /\ UNCHANGED <<now, plan, ticks, sessions, user_sessions, issued,
                 rateVars, captchaVars, cryptoVars>>

\* security.py:496-531, 533-553  the body of the scheduled call runs, from
\* its first line to its return: none of its awaits suspends.  The clock
\* ticks between the reads of created_at and expires_at, or not at all.
CallRun ==
  /\ pending.call # NoCall
  /\ IF pending.call.op = "create_session"
     THEN \E cross \in {3, 5} : DoCreate(pending.call.user, now, cross)
     ELSE \E cross \in {3} : DoValidate(pending.call.token, now, cross)
  /\ pending' = [pending EXCEPT !.call = NoCall]
  /\ UNCHANGED <<calls, ticks, plan, rateVars, captchaVars, cryptoVars>>

\* The manager after a scheduled call is cancelled by its caller: the
\* cancellation is delivered where the coroutine is suspended, which is
\* before its first line.
AbandonedAfterEviction(M, call) ==
  IF call.op = "create_session" /\ AtSessionCap(M, call.user)
  THEN CleanupOldestSession(M, call.user, now)
  ELSE M

Abandoned(M, call) == M

CallAbandon ==
  /\ pending.call # NoCall
  /\ LET M == Abandoned(Manager, pending.call) IN
       /\ sessions' = M.sessions
       /\ user_sessions' = M.user_sessions
  /\ pending' = [pending EXCEPT !.call = NoCall]
  /\ last' = [op |-> "abandon", call |-> pending.call, t |-> now]
  /\ UNCHANGED <<clockVars, issued, rateVars, captchaVars, cryptoVars>>

NextConcurrent ==
  \/ SessionReplay
  \/ SessionRevoke
  \/ SessionRevokeAll
  \/ SessionTick
  \/ SweepCollect
  \/ SweepRevoke
  \/ CallSubmit
  \/ CallRun
  \/ CallAbandon

SpecConcurrent == InitSession /\ [][NextConcurrent]_vars

\* --------------------------------------------- the sweep, interleaved

\* Each principal's index lists exactly its sessions in the store, once.
IndexConsistent ==
  /\ \A token \in DOMAIN sessions : sessions[token].user_id \in DOMAIN user_sessions
  /\ \A u \in DOMAIN user_sessions :
       /\ {user_sessions[u][i] : i \in 1..Len(user_sessions[u])} = SessionsOf(u)
       /\ \A i, j \in 1..Len(user_sessions[u]) :
            user_sessions[u][i] = user_sessions[u][j] => i = j

\* This step is one revoke of a sweep in progress.
SweepStep == last'.op = "sweep_revoke" /\ pending' # pending

\* C29: with other handlers running between the collection and each revoke
\* of a sweep, a revoke of the sweep removes at most its own token, and
\* only a session that was created and had expired before the sweep read
\* the clock; every other session stays as it is, and store and index agree
\* in every state.
C29_SweepInterleaved ==
  [][/\ IndexConsistent'
     /\ SweepStep =>
          \A token \in DOMAIN sessions :
            IF token = last'.token
            THEN /\ ~Has(sessions', token)
                 /\ sessions[token].expires_at < last'.t
                 /\ sessions[token].created_at < last'.t
            ELSE Has(sessions', token) /\ sessions'[token] = sessions[token]]_vars

\* A revoke of the sweep removes an expired session while a session that
\* was created after the sweep collected its tokens is in the store.
C29_Witness ==
  /\ last.op = "sweep_revoke"
  /\ Has(last.before.sessions, last.token)
  /\ \E token \in DOMAIN sessions : sessions[token].created_at >= last.t

\* --------------------------------------------------- abandoned calls

\* This step is the cancellation of a scheduled call.
AbandonStep == last'.op = "abandon" /\ pending' # pending

\* The manager after the whole body of the call, for some clock readings.
Completed(call) ==
  IF call.op = "create_session"
  THEN {CreateSession(Manager, call.user, NextToken, Reads(now, 4, cross)) : cross \in 1..5}
  ELSE {ValidateSession(Manager, call.token, Reads(now, 2, cross)).manager : cross \in 1..3}

Commands ==
  { "start", "wallet", "buy", "sell", "positions", "settings", "copytrade",
    "snipe", "autosell", "faq" }

\* main.py:34, command_handlers.py:23, 68, 94  the command handlers whose
\* first statement is `if not await self.rate_limiter.allow_request(user_id)`
Gated == { "start", "wallet", "buy", "sell" }

\* The limiter has seen nothing, or a full minute window of principal 1.
InitBot ==
  /\ plan \in { <<>>, << B(1, "default", 0, MAX_REQUESTS_PER_MINUTE) >> }
  /\ now = 0
  /\ requests = EmptyDict
  /\ failed_attempts = EmptyDict
  /\ locked_users = EmptyDict
  /\ allowed = PairLogs
  /\ denied = [u \in Users |-> <<>>]
  /\ prevCall = [u \in Users |-> NoCall]
  /\ last = NoCall
  /\ calls = 0
  /\ ticks = 0
  /\ IdleCaptcha
  /\ IdleSessions
  /\ IdleCrypto

\* main.py:30-64, command_handlers.py:19-285  one command of a principal.
\* `known` is whether db.get_user finds the principal; what the handler does
\* after its gate is `ran`.  /start for an unknown principal stores a
\* challenge in the database only; /buy without arguments sets the state.
\* One principal, and the challenges of one of the three generators.
BotCommand ==
  /\ plan = <<>>
  /\ calls < MaxCalls
  /\ \E u \in {1}, command \in Commands, known \in BOOLEAN, t2 \in LaterReads(now) :
       \E c \in IF command = "start" /\ ~known THEN SequenceCaptchas
                ELSE {CHOOSE g \in SequenceCaptchas : TRUE} :
         LET gated == command \in Gated
             R == IF gated THEN CallAllow(Limiter, u, "default", t2) ELSE Limiter
             passed == gated /\ R.last.result
             ran == ~gated \/ passed
         IN /\ LimiterBecomes(
                 [R EXCEPT !.last = [op |-> command, user |-> u, t |-> now,
                                     gated |-> gated, allowed |-> passed, ran |-> ran]])
            /\ user_states' =
                 IF ran /\ known /\ command = "buy"
                 THEN Put(user_states, u, [waiting_for |-> "buy_token_address"])
                 ELSE user_states
            /\ captcha_sessions' =
                 IF ran /\ ~known /\ command = "start"
                 THEN DbStoreCaptcha(captcha_sessions, u, c.answer, R.now)
                 ELSE captcha_sessions
  /\ calls' = calls + 1
  /\ UNCHANGED <<plan, ticks, captcha_storage, stored, inflight, sessionVars, cryptoVars>>

\* command_handlers.py:287-313, 461-479, 680-699  button_callback for the
\* buttons main_menu, captcha_verify and buy
BotButton ==
  /\ plan = <<>>
  /\ calls < MaxCalls
  /\ \E u \in {1}, callback_data \in {"main_menu", "captcha_verify", "buy"} :
       /\ IF callback_data = "captcha_verify"
          THEN \E c \in SequenceCaptchas :
                 /\ Stores(u, c.answer)
                 /\ user_states' = Put(user_states, u,
                                       [waiting_for |-> "captcha_answer",
                                        captcha_answer |-> c.answer])
          ELSE /\ UNCHANGED <<captcha_storage, stored>>
               /\ user_states' =
                    IF callback_data = "buy"
                    THEN Put(user_states, u, [waiting_for |-> "buy_token_address"])
                    ELSE user_states
       /\ last' = [op |-> "button_callback", user |-> u, data |-> callback_data,
                   t |-> now, gated |-> FALSE, allowed |-> FALSE, ran |-> TRUE]
  /\ calls' = calls + 1
  /\ UNCHANGED <<now, plan, ticks, captcha_sessions, inflight,
                 rateVars, sessionVars, cryptoVars>>

\* command_handlers.py:315-337, 481-501, 724-771  handle_message: a text of
\* a principal, routed by the principal's state.  `valid` is whether the
\* text is a well-formed address or amount.  The history counts answers up
\* to one past the budget; other texts count as calls.
BotMessage ==
  /\ plan = <<>>
  /\ \E u \in {1}, valid \in BOOLEAN :
       LET user_state == IF Has(user_states, u) THEN user_states[u]
                         ELSE [waiting_for |-> None]
           waiting_for == user_state.waiting_for
       IN \E message_text \in
               {<<"x">>} \cup (IF waiting_for = "captcha_answer"
                               THEN {user_state.captcha_answer,
                                     <<" ">> \o user_state.captcha_answer}
                               ELSE {}) :
            LET accepted == /\ waiting_for = "captcha_answer"
                            /\ user_state.captcha_answer = Strip(message_text)
            IN /\ waiting_for = "captcha_answer" \/ calls < MaxCalls
               /\ calls' = IF waiting_for = "captcha_answer" THEN calls ELSE calls + 1
               /\ user_states' =
                    IF waiting_for = "captcha_answer"
                    THEN IF accepted THEN Del(user_states, u) ELSE user_states
                    ELSE IF waiting_for = "buy_token_address" /\ valid
                    THEN Put(user_states, u, [waiting_for |-> "buy_amount"])
                    ELSE IF waiting_for = "buy_amount" /\ valid
                    THEN Del(user_states, u)
                    ELSE user_states
               /\ stored' =
                    IF waiting_for = "captcha_answer" /\ stored[u].set
                    THEN [stored EXCEPT
                            ![u].tries = IF @ > MAX_CAPTCHA_ATTEMPTS THEN @ ELSE @ + 1,
                            ![u].done = @ \/ accepted]
                    ELSE stored
               /\ last' = [op |-> "handle_message", user |-> u, text |-> message_text,
                           t |-> now, gated |-> FALSE, allowed |-> FALSE, ran |-> TRUE,
                           waiting_for |-> waiting_for, accepted |-> accepted,
                           challenge |-> stored[u]]
  /\ UNCHANGED <<now, ticks, plan, captcha_storage, captcha_sessions, inflight,
                 rateVars, sessionVars, cryptoVars>>

BotTick == Tick({1, Secs(CAPTCHA_EXPIRY_SECONDS)})

NextBot == RateReplay \/ BotCommand \/ BotButton \/ BotMessage \/ BotTick

SpecBot == InitBot /\ [][NextBot]_vars

\* ------------------------------------------------- gates of the bot

\* The latest event is a command, a button click or a text message.
IsEvent == last.op \in Commands \cup {"button_callback", "handle_message"}

\* C31: for every command, button click and text message, what the handler
\* does for the event runs only after allow_request was called for the
\* principal and returned true.
C31_GateFirst == (IsEvent /\ last.ran) => (last.gated /\ last.allowed)

\* A text answer was accepted as passing the verification.
ChatAccepted == last.op = "handle_message" /\ last.accepted

\* C32: a text answer is accepted as passing verification only on a stored
\* challenge that has not been answered more than 3 times, has not expired
\* and has not been passed before.
C32_ChatGate ==
  ChatAccepted =>
    /\ last.challenge.set
    /\ ~last.challenge.done
    /\ last.challenge.tries < MAX_CAPTCHA_ATTEMPTS
    /\ last.t <= last.challenge.t + Secs(CAPTCHA_EXPIRY_SECONDS)

\* ---------------------------------------------- scope of the lockout

\* The principal's lockout record before the call, if any, was still ahead.
WasLocked == last.lockedUntil > last.t

\* C33: an allow_request of a principal that is not locked out, with fewer
\* than 30 and 200 requests allowed on that endpoint in its windows, is
\* allowed whatever was allowed on other endpoints; a window denial leaves
\* the principal's ledger holding its denials of the last 300 s on every
\* endpoint, and a locked-out principal is rejected on every endpoint.
C33_LockoutScope ==
  IsAllowCall =>
    /\ WasLocked => ~last.result
    /\ (/\ ~WasLocked
        /\ last.minuteCount < MAX_REQUESTS_PER_MINUTE
        /\ last.hourCount < MAX_REQUESTS_PER_HOUR) => last.result
    /\ last.cause \in {"minute", "hour"} =>
         LedgerOf(failed_attempts, last.user) =
           Younger(denied[last.user], denied[last.user][Len(denied[last.user])],
                   FailureHorizonSeconds)

\* The first denial on one endpoint is the principal's fifth, after four on
\* the other endpoint, and locks it out.
C33_Witness ==
  /\ NewLockout
  /\ last.endpoint = "trade"
  /\ last.prev.endpoint = "trade"
  /\ last.prev.result
  /\ Len(last.denials) = MAX_LOGIN_ATTEMPTS - 1

\* ---------------------------------------------- no permanent denial

\* The principal's previous allow_request was entered at least an hour
\* window before this one.
IdleForAnHour ==
  /\ IsAllowCall
  /\ last.prev # NoCall
  /\ last.t - last.prev.t >= Secs(HourWindowSeconds)

\* C35: an allow_request of a principal whose previous request is at least
\* 3600 s old is allowed, on any endpoint, whatever came before.
C35_NoPermanentDenial == IdleForAnHour => last.result

\* Allowed exactly 3600 s after the denial that locked the principal out,
\* with the expired lockout record still in place when the call began.
C35_Witness ==
  /\ IdleForAnHour
  /\ last.t - last.prev.t = Secs(HourWindowSeconds)
  /\ last.prev.lockedAfter
  /\ ~last.prev.result
  /\ last.lockedUntil # -1
  /\ last.result

\* ================================================= the three engines
\* One limiter, one CAPTCHA engine and one session manager serving the same
\* principals, as RokuTradeBot and CommandHandlers hold them.  The opening
\* traffic leaves principal 1 four denials into the failure ledger, both
\* principals with a challenge, principal 1 at the session cap and
\* principal 2 with one session.  The clock moves with the handlers' own
\* reads.
IsolationHistories ==
  { << B(1, "default", 0, MAX_REQUESTS_PER_MINUTE + MAX_LOGIN_ATTEMPTS - 1),
       Op("store_captcha", 1, <<"a", "7">>),
       Op("store_captcha", 2, <<"a", "7">>),
       [op |-> "create_session", user |-> 1, gap |-> 0],
       [op |-> "create_session", user |-> 2, gap |-> 0],
       [op |-> "create_session", user |-> 1, gap |-> 1],
       [op |-> "create_session", user |-> 1, gap |-> 1] >> }

InitIsolation ==
  /\ plan \in IsolationHistories
  /\ now = 0
  /\ calls = 0
  /\ ticks = 0
  /\ IdleSessions
  /\ last = NoCall
  /\ IdleRate
  /\ IdleCaptcha
  /\ IdleCrypto

NextIsolation ==
  \/ RateReplay
  \/ CaptchaReplay
  \/ SessionReplay
  \/ RateRequest
  \/ RateReset
  \/ CaptchaStore
  \/ CaptchaVerify
  \/ SessionCreate
  \/ SessionValidate
  \/ SessionRevoke
  \/ SessionRevokeAll

SpecIsolation == InitIsolation /\ [][NextIsolation]_vars

\* Everything the three engines keep for one principal; an entry of a
\* dictionary is the set of at most one value stored under the key.
Entry(d, k) == IF Has(d, k) THEN {d[k]} ELSE {}

StateOf(u) ==
  [requests |-> Entry(requests, u),
   failed_attempts |-> Entry(failed_attempts, u),
   locked_users |-> Entry(locked_users, u),
   captcha_storage |-> Entry(captcha_storage, u),
   sessions |-> {<<t, sessions[t]>> : t \in SessionsOf(u)},
   user_sessions |-> Entry(user_sessions, u)]

\* What the principal's next operation at time t would return, in a state
\* of the limiter R, the challenge storage and the manager M.
ResultsIn(R, storage, M, u, t) ==
  [allow_request |->
     [e \in Endpoints |-> AllowRequest(R, u, e, t, t).result],
   verify_captcha |->
     [text \in CaptchaTexts |-> VerifyCaptcha(storage, u, text, t).result],
   validate_session |->
     [token \in {x \in DOMAIN M.sessions : M.sessions[x].user_id = u} |->
        ValidateSession(M, token, <<t, t>>).valid]]

\* The principal the latest operation was invoked for: the one it names, or
\* the owner of the token it names; 0 for a token of nobody.
Actor ==
  IF "user" \in DOMAIN last' THEN last'.user
  ELSE IF "token" \in DOMAIN last' /\ Has(sessions, last'.token)
       THEN sessions[last'.token].user_id
       ELSE 0

\* C34: a step of an operation invoked for one principal leaves what the
\* limiter, the CAPTCHA engine and the session manager keep for every other
\* principal as it was, and with it the result of every operation the
\* other principal could invoke next.
C34_Isolation ==
  [][\A b \in Users \ {Actor} :
       /\ StateOf(b)' = StateOf(b)
       /\ ResultsIn(Limiter', captcha_storage', Manager', b, now')
            = ResultsIn(Limiter, captcha_storage, Manager, b, now')]_vars

\* Principal 1 has had its oldest session evicted and has just been locked
\* out by its fifth denial, while principal 2 holds a challenge and a
\* session.
C34_Witness ==
  /\ plan = <<>>
  /\ NewLockout
  /\ last.user = 1
  /\ Cardinality(SessionsOf(1)) = MAX_CONCURRENT_SESSIONS
  /\ 1 \notin SessionsOf(1)
  /\ Has(captcha_storage, 2)
  /\ SessionsOf(2) # {}

\* ------------------------------------------------- what eviction picks

\* A step of create_session, and the sessions it removed.
CreateStep == last'.op = "create_session" /\ issued' # issued

Removed == (DOMAIN sessions) \ (DOMAIN sessions')

\* Position of a token in a principal's index.
PlaceOf(token, user_id) ==
  CHOOSE i \in 1..Len(user_sessions[user_id]) : user_sessions[user_id][i] = token

\* C36: a session removed by create_session belongs to the creating
\* principal, no session of that principal was created or expires before
\* it, among those created at the same clock reading it is the first in the
\* index, and if it is unexpired at a clock reading of the call, so are all
\* the principal's sessions.
C36_EvictsEarliest ==
  [][CreateStep =>
       \A x \in Removed :
         /\ sessions[x].user_id = last'.user
         /\ \A y \in SessionsOf(last'.user) :
              /\ sessions[x].created_at <= sessions[y].created_at
              /\ sessions[x].expires_at <= sessions[y].expires_at
              /\ sessions[x].created_at = sessions[y].created_at =>
                   PlaceOf(x, last'.user) <= PlaceOf(y, last'.user)
              /\ \A t \in {last'.t, now'} :
                   ~SessionExpired(t, sessions[x].expires_at) =>
                     ~SessionExpired(t, sessions[y].expires_at)]_vars

\* The session created first has been evicted and the two created after it
\* are kept.
C36_Witness ==
  /\ last.op = "create_session"
  /\ Len(last.held) = MAX_CONCURRENT_SESSIONS
  /\ ~Has(sessions, last.held[1].token)
  /\ Has(sessions, last.held[2].token)
  /\ Has(sessions, last.held[3].token)
  /\ last.held[1].created_at < last.held[2].created_at

\* ------------------------------------------- store and index together

\* The places of a token in a principal's index.
PlacesIn(token, p) ==
  IF Has(user_sessions, p)
  THEN {i \in 1..Len(user_sessions[p]) : user_sessions[p][i] = token}
  ELSE {}

\* Every token a principal's index can hold: the issued ones and a forged one.
AnyToken == issued \cup {ForgedToken} \cup DOMAIN sessions

\* C37: in every reachable state a token is in the index of principal p
\* exactly when the store holds a session under it with user_id = p, and
\* every token is in at most one place of at most one index.
C37_IndexConsistency ==
  /\ \A u \in DOMAIN user_sessions :
       \A i \in 1..Len(user_sessions[u]) : user_sessions[u][i] \in AnyToken
  /\ \A token \in AnyToken :
       /\ \A p \in Users \cup DOMAIN user_sessions :
            PlacesIn(token, p) # {} <=>
              (Has(sessions, token) /\ sessions[token].user_id = p)
       /\ Cardinality(UNION {{<<p, i>> : i \in PlacesIn(token, p)} :
                                p \in DOMAIN user_sessions}) <= 1

\* A session has been revoked from the middle of a full index; the index
\* keeps the other two in order and the store keeps their sessions.
C37_Witness ==
  /\ last.op = "revoke_session"
  /\ Has(last.before.user_sessions, 1)
  /\ Len(last.before.user_sessions[1]) = MAX_CONCURRENT_SESSIONS
  /\ last.token = last.before.user_sessions[1][2]
  /\ user_sessions[1] = <<last.before.user_sessions[1][1], last.before.user_sessions[1][3]>>
  /\ SessionsOf(1) = {user_sessions[1][1], user_sessions[1][2]}

\* ------------------------------------------------ the attempts counter

\* C38: in every reachable state the attempts of each stored challenge are
\* between 0 and MAX_CAPTCHA_ATTEMPTS, and a step that leaves a principal's
\* challenge with fewer attempts than before is a store_captcha for that
\* principal, which leaves 0.
C38_AttemptsBound ==
  /\ [](\A u \in DOMAIN captcha_storage :
          captcha_storage[u].attempts \in 0..MAX_CAPTCHA_ATTEMPTS)
  /\ [][\A u \in (DOMAIN captcha_storage) \cap (DOMAIN captcha_storage') :
          captcha_storage'[u].attempts < captcha_storage[u].attempts =>
            /\ last'.op = "store_captcha"
            /\ last'.user = u
            /\ captcha_storage'[u].attempts = 0]_vars

\* The third wrong answer has left the challenge stored with 3 attempts.
C38_Witness ==
  /\ last.op = "verify_captcha"
  /\ ~last.result
  /\ Has(captcha_storage, last.user)
  /\ captcha_storage[last.user].attempts = MAX_CAPTCHA_ATTEMPTS

\* ---------------------------------------------- overlapping stores

\* The latest step completed a store_captcha and none is in flight.
StoresCompleted == last.op = "store_captcha" /\ inflight = {}

\* C39: once every store_captcha begun for a principal has completed, the
\* challenge in memory and the principal's document in the durable store,
\* if both exist, hold the same answer.
C39_StoresAgree ==
  (/\ StoresCompleted
   /\ Has(captcha_storage, last.user)
   /\ Has(captcha_sessions, last.user)) =>
    captcha_storage[last.user].answer = captcha_sessions[last.user].answer

====
